---- MODULE Spec2Model ----
(***************************************************************************)
(* The partition registry (DatabaseManager), the category administration   *)
(* (AdminService) and the moderator grants (AuthService) of the forum, as  *)
(* a state machine.  A request is a task; it runs from one await to the    *)
(* next in one step (node runs a continuation to its next await without    *)
(* interruption), and the statement it awaited takes effect in the step    *)
(* that resumes it.                                                        *)
(***************************************************************************)
EXTENDS Integers, Sequences, FiniteSets, TLC

\* ------------------------------------------------------------------ bounds
\* category ids handed out by AUTOINCREMENT: 1..MaxCat
MaxCat == 2
\* statements of the content schema that createForumTables runs one by one
NStmts == 2
\* posts a partition holds at most
MaxPosts == 1
\* connection objects alive at the same time
MaxHandles == 4
\* database files (inodes) alive at the same time
MaxInodes == 3
\* display_order values 0..MaxOrder
MaxOrder == 1
\* rows of user_activity_logs
MaxLog == 1
\* comments a partition's AUTOINCREMENT hands out
MaxComments == 1
\* attachments a partition's AUTOINCREMENT hands out
MaxAttachments == 1
\* view_count values 0..MaxViews
MaxViews == 2
\* posts of the partition that getPosts pages through: 0..MaxRows
MaxRows == 4
\* timestamps 1..MaxStamp of created_at and last_comment_at
MaxStamp == 2
\* page numbers 1..MaxPage
MaxPage == 3
\* page sizes 1..MaxLimit
MaxLimit == 2
MaxActRows == 2
MaxQuery == 3
MaxRuns == 3
MaxDay == 2
MaxSec == 1
MaxPopRows == 2
MaxPopViews == 1

Cats == 1..MaxCat
Handles == 1..MaxHandles
Inodes == 1..MaxInodes
Tasks == {"t1", "t2"}

\* users(id, role): 1 is the site administrator, 2 an ordinary account;
\* id 3 is an id with no row.
Users == {1, 2}
UserIds == {1, 2, 3}
Roles == {"user", "moderator", "super_admin"}

VARIABLES
    cfg,        \* config.db as seen on the one shared connection
    txn,        \* the transaction open on the config connection
    files,      \* forum_<k>.db: path -> inode (0: no such file)
    inodes,     \* contents of the database files
    handles,    \* sqlite3.Database objects of the partitions
    forumDBs,   \* DatabaseManager.forumDBs: categoryId -> handle (0: no entry)
    pc,         \* where each request stands
    loc,        \* the request's arguments and local variables
    activity,   \* rows in user_activity_logs
    content,    \* rows of each partition: posts, comments, attachments, posts_fts
    mgr         \* DatabaseManager.configDB and DatabaseManager.isInitialized

\* the rows of the partitions and the manager's own fields
forumVars == <<content, mgr>>

vars == <<cfg, txn, files, inodes, handles, forumDBs, pc, loc, activity, forumVars>>

\* ------------------------------------------------------------ config store
NoRow == -1

EmptyCfg ==
    [role   |-> [u \in Users |-> "user"],
     cats   |-> [c \in Cats |-> NoRow],
     grants |-> {},
     seq    |-> 0]

\* createConfigTables plus the accounts made by scripts/create_superuser.js
\* and by registration
FreshCfg ==
    [EmptyCfg EXCEPT !.role = [u \in Users |-> IF u = 1 THEN "super_admin" ELSE "user"]]

NoTxn == [open |-> FALSE, snap |-> EmptyCfg]

\* ------------------------------------------------------- partition stores
FreeHandle == [st |-> "free", ino |-> 0]
FreeInode == [used |-> FALSE, schema |-> 0, posts |-> 0]

\* the handles some variable still refers to
HandleRefs(fdb, lc) ==
    ({fdb[k] : k \in Cats} \cup {lc[t].db : t \in Tasks} \cup {lc[t].ret : t \in Tasks}) \ {0}

\* a connection object nothing refers to is collected
SweepHandles(h, fdb, lc) ==
    [x \in Handles |-> IF x \in HandleRefs(fdb, lc) THEN h[x] ELSE FreeHandle]

\* a file with no path and no open connection is released by the file system
SweepInodes(ino, fl, h) ==
    [i \in Inodes |->
        IF i \in ({fl[k] : k \in Cats} \cup {h[x].ino : x \in {y \in Handles : h[y].st = "open"}})
        THEN ino[i] ELSE FreeInode]

FreshHandle(h, fdb, lc) ==
    CHOOSE x \in Handles : x \notin HandleRefs(fdb, lc) /\ \A y \in Handles : y \notin HandleRefs(fdb, lc) => x <= y

FreshInode(ino) ==
    CHOOSE i \in Inodes : ~ino[i].used /\ \A j \in Inodes : ~ino[j].used => i <= j

Max(a, b) == IF a >= b THEN a ELSE b

\* -------------------------------------------------------- forum_schema.sql
\* the lines of forum_schema.sql: the object a line belongs to and what the
\* line is (a comment, the opening, an inner or the closing line of a CREATE
\* TABLE, a one-line CREATE INDEX, or a line of a CREATE TRIGGER)
Ln(obj, part) == [obj |-> obj, part |-> part]

TableLines(name) ==
    <<Ln(name, "comment"), Ln(name, "create_open"), Ln(name, "body"), Ln(name, "close")>>

IndexLine(name) == <<Ln(name, "single")>>

TriggerLines(name, body) ==
    <<Ln(name, "comment"), Ln(name, "trig_create"), Ln(name, "trig_begin")>>
    \o [i \in 1..body |-> Ln(name, "trig_body")] \o <<Ln(name, "trig_end")>>

SchemaFile ==
    <<Ln("file", "comment")>>
    \o TableLines("posts") \o TableLines("comments") \o TableLines("attachments")
    \o TableLines("posts_fts")
    \o <<Ln("file", "comment")>>
    \o IndexLine("idx_posts_category_id") \o IndexLine("idx_posts_user_id")
    \o IndexLine("idx_posts_created_at") \o IndexLine("idx_posts_last_comment_at")
    \o <<Ln("file", "comment")>>
    \o IndexLine("idx_comments_post_id") \o IndexLine("idx_comments_user_id")
    \o IndexLine("idx_comments_created_at")
    \o <<Ln("file", "comment")>>
    \o IndexLine("idx_attachments_post_id") \o IndexLine("idx_attachments_filename")
    \o TriggerLines("posts_ai", 1) \o TriggerLines("posts_ad", 1) \o TriggerLines("posts_au", 2)
    \o TriggerLines("comments_ai", 1) \o TriggerLines("comments_au", 1)

\* the table an index or a trigger is created ON
OnTable(obj) ==
    CASE obj \in {"idx_posts_category_id", "idx_posts_user_id", "idx_posts_created_at",
                  "idx_posts_last_comment_at", "posts_ai", "posts_ad", "posts_au"} -> "posts"
      [] obj \in {"idx_comments_post_id", "idx_comments_user_id", "idx_comments_created_at",
                  "comments_ai", "comments_au"} -> "comments"
      [] obj \in {"idx_attachments_post_id", "idx_attachments_filename"} -> "attachments"
      [] OTHER -> "none"

SchemaObjects == {SchemaFile[i].obj : i \in DOMAIN SchemaFile} \ {"file"}

\* what parseSQLStatements tests on a line
StartsWithDashes(line) == line.part = "comment"
IncludesCreateTrigger(line) == line.part = "trig_create"
IncludesBegin(line) == line.part = "trig_begin"
IncludesEnd(line) == line.part = "trig_end"
EndsWithSemicolon(line) == line.part \in {"close", "single", "trig_body", "trig_end"}

\* the loop of parseSQLStatements over the lines
RECURSIVE ParseLines(_, _, _, _, _, _)
ParseLines(lines, i, cur, inTrigger, depth, out) ==
    IF i > Len(lines) THEN (IF cur = <<>> THEN out ELSE Append(out, cur))
    ELSE LET line == lines[i]
             c == Append(cur, line)
             inT == inTrigger \/ IncludesCreateTrigger(line)
             d0 == IF IncludesCreateTrigger(line) THEN 0 ELSE depth
             d1 == IF inT /\ IncludesBegin(line) THEN d0 + 1 ELSE d0
             d2 == IF inT /\ IncludesEnd(line) THEN d1 - 1 ELSE d1
         IN IF StartsWithDashes(line)
            THEN ParseLines(lines, i + 1, cur, inTrigger, depth, out)
            ELSE IF EndsWithSemicolon(line) /\ ~(inT /\ d2 > 0)
                 THEN ParseLines(lines, i + 1, <<>>, FALSE, 0, Append(out, c))
                 ELSE ParseLines(lines, i + 1, c, inT, d2, out)

ParseSQLStatements(lines) == ParseLines(lines, 1, <<>>, FALSE, 0, <<>>)

\* the lines are one whole CREATE statement
WholeStatement(stmt) ==
    LET n == Len(stmt)
        parts == [i \in 1..n |-> stmt[i].part]
    IN /\ n >= 1
       /\ \A i \in 1..n : stmt[i].obj = stmt[1].obj
       /\ \/ n = 1 /\ parts[1] = "single"
          \/ /\ n >= 2 /\ parts[1] = "create_open" /\ parts[n] = "close"
             /\ \A i \in 2..(n - 1) : parts[i] = "body"
          \/ /\ n >= 4 /\ parts[1] = "trig_create" /\ parts[2] = "trig_begin"
             /\ parts[n] = "trig_end"
             /\ \A i \in 3..(n - 1) : parts[i] = "trig_body"

\* (variant: CREATE without IF NOT EXISTS)
RunStatementPlain(objects, stmt) ==
    IF ~WholeStatement(stmt) THEN [err |-> "syntax", objects |-> objects]
    ELSE LET obj == stmt[1].obj
         IN IF obj \in objects THEN [err |-> "exists", objects |-> objects]
            ELSE IF OnTable(obj) # "none" /\ OnTable(obj) \notin objects
                 THEN [err |-> "no such table", objects |-> objects]
                 ELSE [err |-> "none", objects |-> objects \cup {obj}]

\* runQuery(db, statement) of a CREATE ... IF NOT EXISTS statement
RunStatement(objects, stmt) ==
    IF ~WholeStatement(stmt) THEN [err |-> "syntax", objects |-> objects]
    ELSE LET obj == stmt[1].obj
         IN IF obj \in objects THEN [err |-> "none", objects |-> objects]
            ELSE IF OnTable(obj) # "none" /\ OnTable(obj) \notin objects
                 THEN [err |-> "no such table", objects |-> objects]
                 ELSE [err |-> "none", objects |-> objects \cup {obj}]

\* DROP of obj takes the indexes and triggers on it along
Dropped(obj) == {obj} \cup {o \in SchemaObjects : OnTable(o) = obj}

\* the stores createForumTables may meet: new, complete, or with one object dropped
SchemaStates == {{}, SchemaObjects} \cup {SchemaObjects \ Dropped(o) : o \in SchemaObjects}

\* ---------------------------------------------------------- content stores
\* a partition right after forum_schema.sql: no rows, AUTOINCREMENT at 0
EmptyPartition ==
    [objects |-> SchemaObjects,
     posts |-> {}, comments |-> {}, attachments |-> {}, fts |-> {},
     postSeq |-> 0, commentSeq |-> 0, attachmentSeq |-> 0]

\* the manager after initialize(): config.db open, isInitialized set
ReadyMgr == [configDB |-> "open", isInitialized |-> TRUE]

\* ------------------------------------------------------------------ tasks
BlankLoc ==
    [op |-> "none", admin |-> 0, uid |-> 0, cid |-> 0, ord |-> 0,
     user |-> "none", db |-> 0, ret |-> 0, idx |-> 0, hasError |-> FALSE,
     cnt |-> 0, res |-> "none", why |-> "none", via |-> "none",
     queries |-> <<>>, txres |-> "none", pre |-> EmptyCfg,
     action |-> "none", val |-> FALSE,
     pid |-> 0, title |-> {}, isModerator |-> FALSE, incrementView |-> FALSE,
     post |-> 0, views |-> 0, author |-> 0,
     pending |-> {}, failed |-> {}, found |-> {}, word |-> "none",
     stats |-> <<>>, totalPosts |-> 0,
     now |-> 0, bumped |-> <<0, 0>>, prev |-> 0,
     first |-> "none",
     newRole |-> "none",
     query |-> <<>>,
     stmts |-> <<>>, run |-> 0, snap |-> {},
     parts |-> <<>>, cutoff |-> [day |-> 0, sec |-> 0], allPosts |-> <<>>,
     rows |-> <<>>, sortBy |-> "created_at", page |-> 1, limit |-> 1, tie |-> "asc",
     posts |-> <<>>,
     pagination |-> [total_pages |-> 0, total_count |-> 0, has_next |-> FALSE,
                     has_prev |-> FALSE]]

Init ==
    /\ cfg = FreshCfg
    /\ txn = NoTxn
    /\ files = [k \in Cats |-> 0]
    /\ inodes = [i \in Inodes |-> FreeInode]
    /\ handles = [h \in Handles |-> FreeHandle]
    /\ forumDBs = [k \in Cats |-> 0]
    /\ pc = [t \in Tasks |-> "idle"]
    /\ loc = [t \in Tasks |-> BlankLoc]
    /\ activity = 0
    /\ content = [k \in Cats |-> EmptyPartition]
    /\ mgr = ReadyMgr

\* the request ends: it returned (res = "ok") or threw (res = "err")
Finish(l, r, w) == [pc |-> "done", loc |-> [l EXCEPT !.res = r, !.why = w]]

At(label, l) == [pc |-> label, loc |-> l]

SetTask(t, n) ==
    /\ pc' = [pc EXCEPT ![t] = n.pc]
    /\ loc' = [loc EXCEPT ![t] = n.loc]

\* a request may start when its task is free
Idle(t) == pc[t] = "idle"

\* ------------------------------------------- getForumDB / createForumDB
\* (variant: the handle is cached whether or not createForumDB resolved)
GetForumDBSetAlways(fdb, k, db, ok) ==
    [fdb EXCEPT ![k] = db]

\* getForumDB caches what createForumDB resolved with; a rejection is thrown
\* before the cache is touched
GetForumDBSet(fdb, k, db, ok) ==
    IF ok THEN [fdb EXCEPT ![k] = db] ELSE fdb

\* the caller of getForumDB goes on (ok) or catches (not ok)
AfterGetForumDB(l, ok) ==
    CASE l.op = "getForumDB" ->
            IF ok THEN Finish(l, "ok", "none") ELSE Finish(l, "err", "store")
      [] l.op = "createPost" ->
            IF ok THEN At("cp_insert", l) ELSE Finish(l, "err", "store")
      [] l.op = "deleteCategory" ->
            \* the inner catch of deleteCategory swallows the failure
            IF ok THEN At("dc_count", l) ELSE At("dfc_exist", l)

\* createForumDB settled: its caller goes on
AfterCreateForumDB(l, ok) ==
    IF l.via = "createNewForumCategory"
    THEN IF ok THEN At("cc_log", l) ELSE Finish(l, "err", "store")
    ELSE AfterGetForumDB([l EXCEPT !.ret = IF ok THEN l.db ELSE 0], ok)

\* the synchronous head of getForumDB: a cached handle is returned at once,
\* otherwise createForumDB starts opening the file
GetForumDBStart(l) ==
    IF forumDBs[l.cid] # 0
    THEN AfterGetForumDB([l EXCEPT !.ret = forumDBs[l.cid]], TRUE)
    ELSE At("cfd_open", [l EXCEPT !.via = "getForumDB"])

CallGetForumDB(t) ==
    /\ Idle(t)
    /\ \E k \in Cats :
          SetTask(t, GetForumDBStart([BlankLoc EXCEPT !.op = "getForumDB", !.cid = k]))
    /\ UNCHANGED <<cfg, txn, files, inodes, handles, forumDBs>>
    /\ UNCHANGED <<activity, forumVars>>

\* new sqlite3.Database(path, callback): the callback runs
CreateForumDBOpen(t) ==
    /\ pc[t] = "cfd_open"
    /\ LET l == loc[t]
           k == l.cid
           room == /\ \E h \in Handles : h \notin HandleRefs(forumDBs, loc)
                   /\ files[k] # 0 \/ \E i \in Inodes : ~inodes[i].used
       IN \/ \* err: reject(err)
             /\ SetTask(t, AfterCreateForumDB(l, FALSE))
             /\ UNCHANGED <<files, inodes, handles>>
          \/ \* the file is opened, and created when it is not there
             /\ room
             /\ LET h == FreshHandle(handles, forumDBs, loc)
                    i == IF files[k] # 0 THEN files[k] ELSE FreshInode(inodes)
                IN /\ files' = [files EXCEPT ![k] = i]
                   /\ inodes' = [inodes EXCEPT ![i].used = TRUE]
                   /\ handles' = [handles EXCEPT ![h] = [st |-> "open", ino |-> i]]
                   /\ SetTask(t, At("cfd_schema", [l EXCEPT !.db = h, !.idx = 1]))
    /\ UNCHANGED <<cfg, txn, forumDBs>>
    /\ UNCHANGED <<activity, forumVars>>

\* createForumTables: statement idx of forum_schema.sql has run; every
\* statement is CREATE ... IF NOT EXISTS
CreateForumTablesStmt(t) ==
    /\ pc[t] = "cfd_schema"
    /\ LET l == loc[t]
           k == l.cid
           i == handles[l.db].ino
       IN \/ \* the statement (or reading the template) fails: createForumDB rejects
             /\ SetTask(t, AfterCreateForumDB(l, FALSE))
             /\ forumDBs' = IF l.via = "getForumDB"
                            THEN GetForumDBSet(forumDBs, k, l.db, FALSE) ELSE forumDBs
             /\ UNCHANGED <<inodes, handles>>
          \/ /\ l.idx < NStmts
             /\ inodes' = [inodes EXCEPT ![i].schema = Max(@, l.idx)]
             /\ SetTask(t, At("cfd_schema", [l EXCEPT !.idx = l.idx + 1]))
             /\ UNCHANGED <<forumDBs, handles>>
          \/ \* the last statement: createForumDB resolves with the handle
             /\ l.idx = NStmts
             /\ LET fdb == IF l.via = "getForumDB"
                           THEN GetForumDBSet(forumDBs, k, l.db, TRUE) ELSE forumDBs
                    n == AfterCreateForumDB(l, TRUE)
                IN /\ forumDBs' = fdb
                   /\ inodes' = [inodes EXCEPT ![i].schema = Max(@, l.idx)]
                   /\ SetTask(t, n)
                   /\ handles' = SweepHandles(handles, fdb, [loc EXCEPT ![t] = n.loc])
    /\ UNCHANGED <<cfg, txn, files>>
    /\ UNCHANGED <<activity, forumVars>>

\* --------------------------------------------------- ForumService.createPost
CallCreatePost(t) ==
    /\ Idle(t)
    /\ \E k \in Cats, u \in Users :
          SetTask(t, GetForumDBStart([BlankLoc EXCEPT !.op = "createPost", !.cid = k, !.uid = u]))
    /\ UNCHANGED <<cfg, txn, files, inodes, handles, forumDBs>>
    /\ UNCHANGED <<activity, forumVars>>

\* INSERT INTO posts through the handle getForumDB returned
CreatePostInsert(t) ==
    /\ pc[t] = "cp_insert"
    /\ LET l == loc[t]
           h == handles[l.ret]
       IN \/ /\ SetTask(t, Finish(l, "err", "store"))
             /\ UNCHANGED inodes
          \/ /\ h.st = "open"
             /\ inodes[h.ino].schema = NStmts
             /\ inodes[h.ino].posts < MaxPosts
             /\ inodes' = [inodes EXCEPT ![h.ino].posts = @ + 1]
             /\ SetTask(t, Finish(l, "ok", "none"))
    /\ UNCHANGED <<cfg, txn, files, handles, forumDBs>>
    /\ UNCHANGED <<activity, forumVars>>

\* the caller has its result; the task is free again
Return(t) ==
    /\ pc[t] = "done"
    /\ LET lc == [loc EXCEPT ![t] = BlankLoc]
           h == SweepHandles(handles, forumDBs, lc)
       IN /\ pc' = [pc EXCEPT ![t] = "idle"]
          /\ loc' = lc
          /\ handles' = h
          /\ inodes' = SweepInodes(inodes, files, h)
    /\ UNCHANGED <<cfg, txn, files, forumDBs>>
    /\ UNCHANGED <<activity, forumVars>>

\* ------------------------------------------------ AuthService.checkPermission
\* 'admin_site' and 'manage_users' are granted to the super_admin role only
CheckPermission(c, userId) ==
    /\ userId \in Users
    /\ c.role[userId] = "super_admin"

\* -------------------------------------------- DatabaseManager.runTransaction
\* the statements of the transactions
DelGrants(k) == [kind |-> "delGrants", cid |-> k, ord |-> 0]
DelCat(k) == [kind |-> "delCat", cid |-> k, ord |-> 0]
SetOrder(k, o) == [kind |-> "setOrder", cid |-> k, ord |-> o]

\* UPDATE categories SET display_order = ?, updated_at = CURRENT_TIMESTAMP:
\* createConfigTables gives categories no updated_at column, so sqlite cannot
\* prepare the statement; the DELETEs are valid statements
QueryCanSucceed(q) == q.kind # "setOrder"

ApplyQuery(c, q) ==
    CASE q.kind = "delGrants" -> [c EXCEPT !.grants = {g \in @ : g[2] # q.cid}]
      [] q.kind = "delCat" -> [c EXCEPT !.cats[q.cid] = NoRow]
      [] q.kind = "setOrder" -> [c EXCEPT !.cats[q.cid] = IF @ = NoRow THEN NoRow ELSE q.ord]

\* (variant: the error of a statement is dropped)
TxStatementErrorDropped(c, l, ok) ==
    IF ok THEN [cfg |-> ApplyQuery(c, l.queries[l.idx]), hasError |-> l.hasError]
    ELSE [cfg |-> c, hasError |-> l.hasError]

\* one statement of the batch has run: an error only sets hasError
TxStatement(c, l, ok) ==
    IF ok THEN [cfg |-> ApplyQuery(c, l.queries[l.idx]), hasError |-> l.hasError]
    ELSE [cfg |-> c, hasError |-> TRUE]

\* after statement idx: the next statement, or COMMIT / ROLLBACK
TxAdvance(l, hasError) ==
    IF l.idx < Len(l.queries)
    THEN At("tx_query", [l EXCEPT !.idx = l.idx + 1, !.hasError = hasError])
    ELSE At("tx_end", [l EXCEPT !.idx = 0, !.hasError = hasError])

\* runTransaction settled: its caller goes on
AfterTransaction(l, ok) ==
    CASE l.op = "deleteCategory" ->
            IF ~ok THEN Finish(l, "err", "tx")
            ELSE IF forumDBs[l.cid] # 0
                 THEN At("dfc_close", [l EXCEPT !.db = forumDBs[l.cid]])
                 ELSE At("dfc_unlink", l)
      [] l.op = "updateCategoryOrder" ->
            IF ok THEN At("log", l) ELSE Finish(l, "err", "tx")

\* db.serialize: BEGIN TRANSACTION and the first statement run back to back.
\* BEGIN inside an open transaction is an error that nothing looks at.
TxBegin(t) ==
    /\ pc[t] = "tx_begin"
    /\ LET l == loc[t]
           began == IF txn.open THEN txn ELSE [open |-> TRUE, snap |-> cfg]
       IN \E ok \in {b \in BOOLEAN : b => QueryCanSucceed(l.queries[l.idx])} :
             LET r == TxStatement(cfg, l, ok)
             IN /\ txn' = began
                /\ cfg' = r.cfg
                /\ SetTask(t, TxAdvance(l, r.hasError))
    /\ UNCHANGED <<files, inodes, handles, forumDBs>>
    /\ UNCHANGED <<activity, forumVars>>

\* executeQuery(index), index >= 1
TxQuery(t) ==
    /\ pc[t] = "tx_query"
    /\ LET l == loc[t]
       IN \E ok \in {b \in BOOLEAN : b => QueryCanSucceed(l.queries[l.idx])} :
             LET r == TxStatement(cfg, l, ok)
             IN /\ cfg' = r.cfg
                /\ SetTask(t, TxAdvance(l, r.hasError))
    /\ UNCHANGED <<txn, files, inodes, handles, forumDBs>>
    /\ UNCHANGED <<activity, forumVars>>

\* executeQuery(queries.length): ROLLBACK when a statement failed, else COMMIT
TxEnd(t) ==
    /\ pc[t] = "tx_end"
    /\ LET l == loc[t]
       IN IF l.hasError
          THEN \* ROLLBACK, then reject; an error of ROLLBACK is only logged
               /\ cfg' = IF txn.open THEN txn.snap ELSE cfg
               /\ txn' = NoTxn
               /\ SetTask(t, AfterTransaction([l EXCEPT !.txres = "rolledback"], FALSE))
          ELSE \* COMMIT: resolve, or reject when there is nothing to commit
               /\ cfg' = cfg
               /\ txn' = NoTxn
               /\ SetTask(t, AfterTransaction(
                      [l EXCEPT !.txres = IF txn.open THEN "committed" ELSE "commitfailed"],
                      txn.open))
    /\ UNCHANGED <<files, inodes, handles, forumDBs>>
    /\ UNCHANGED <<activity, forumVars>>

\* ------------------------------------------------------- the shared steps
\* the request's first await: checkPermission(adminUserId, ...)
AfterPermission(l) ==
    CASE l.op = "createCategory" -> At("cc_dup", l)
      [] l.op = "deleteCategory" -> At("dc_exist", l)
      [] l.op = "assignModerator" -> At("am_user", l)
      [] l.op = "removeModerator" -> At("rm_existing", l)
      [] l.op = "updateCategoryOrder" -> At("tx_begin", [l EXCEPT !.idx = 1])
      [] l.op = "changeUserRole" ->
            IF l.newRole \notin Roles THEN Finish(l, "err", "invalid")
            ELSE IF l.admin = l.uid THEN Finish(l, "err", "self")
            ELSE At("cr_user", l)

Permission(t) ==
    /\ pc[t] = "perm"
    /\ LET l == loc[t]
       IN SetTask(t, IF CheckPermission(cfg, l.admin)
                     THEN AfterPermission(l)
                     ELSE Finish(l, "err", "denied"))
    /\ UNCHANGED <<cfg, txn, files, inodes, handles, forumDBs>>
    /\ UNCHANGED <<activity, forumVars>>

\* logUserActivity: the INSERT into user_activity_logs; its failure is only
\* logged.  Then the request returns.
LogUserActivity(t) ==
    /\ pc[t] = "log"
    /\ \E ok \in {b \in BOOLEAN : b => activity < MaxLog} :
          activity' = IF ok THEN activity + 1 ELSE activity
    /\ SetTask(t, Finish(loc[t], "ok", "none"))
    /\ UNCHANGED <<cfg, txn, files, inodes, handles, forumDBs>>
    /\ UNCHANGED forumVars

\* ------------------------------------------------ AdminService.createCategory
CallCreateCategory(t) ==
    /\ Idle(t)
    /\ \E a \in Users, o \in 0..MaxOrder :
          SetTask(t, At("perm", [BlankLoc EXCEPT !.op = "createCategory", !.admin = a,
                                                   !.ord = o, !.pre = cfg]))
    /\ UNCHANGED <<cfg, txn, files, inodes, handles, forumDBs>>
    /\ UNCHANGED <<activity, forumVars>>

\* SELECT id FROM categories WHERE name = ?: the name is one a category has
\* already, or it is not
CreateCategoryDup(t) ==
    /\ pc[t] = "cc_dup"
    /\ LET l == loc[t]
       IN \/ /\ \E c \in Cats : cfg.cats[c] # NoRow
             /\ SetTask(t, Finish(l, "err", "conflict"))
          \/ SetTask(t, At("cnfc_insert", l))
    /\ UNCHANGED <<cfg, txn, files, inodes, handles, forumDBs>>
    /\ UNCHANGED <<activity, forumVars>>

\* createNewForumCategory: INSERT INTO categories, then createForumDB(id);
\* a failure of createForumDB is logged and thrown again
CreateNewForumCategoryInsert(t) ==
    /\ pc[t] = "cnfc_insert"
    /\ LET l == loc[t]
           id == cfg.seq + 1
       IN \/ /\ SetTask(t, Finish(l, "err", "store"))
             /\ cfg' = cfg
          \/ /\ cfg.seq < MaxCat
             /\ cfg' = [cfg EXCEPT !.cats[id] = l.ord, !.seq = id]
             /\ SetTask(t, At("cfd_open", [l EXCEPT !.cid = id, !.via = "createNewForumCategory"]))
    /\ UNCHANGED <<txn, files, inodes, handles, forumDBs>>
    /\ UNCHANGED <<activity, forumVars>>

\* ------------------------------------------------ AdminService.deleteCategory
CallDeleteCategory(t) ==
    /\ Idle(t)
    /\ \E a \in Users, k \in Cats :
          SetTask(t, At("perm", [BlankLoc EXCEPT !.op = "deleteCategory", !.admin = a,
                                                   !.cid = k, !.pre = cfg]))
    /\ UNCHANGED <<cfg, txn, files, inodes, handles, forumDBs>>
    /\ UNCHANGED <<activity, forumVars>>

\* SELECT * FROM categories WHERE id = ? AND is_active = 1, then getForumDB
DeleteCategoryExist(t) ==
    /\ pc[t] = "dc_exist"
    /\ LET l == loc[t]
       IN SetTask(t, IF cfg.cats[l.cid] = NoRow
                     THEN Finish(l, "err", "notfound")
                     ELSE GetForumDBStart(l))
    /\ UNCHANGED <<cfg, txn, files, inodes, handles, forumDBs>>
    /\ UNCHANGED <<activity, forumVars>>

\* SELECT COUNT(*) FROM posts: with posts the inner try throws, and its own
\* catch swallows what it threw; deleteForumCategory is called either way
PostCountGuard(l, count) == At("dfc_exist", [l EXCEPT !.cnt = count])

DeleteCategoryCount(t) ==
    /\ pc[t] = "dc_count"
    /\ LET l == loc[t]
           h == handles[l.ret]
       IN SetTask(t, IF h.st = "open" /\ inodes[h.ino].schema = NStmts
                     THEN PostCountGuard(l, inodes[h.ino].posts)
                     ELSE At("dfc_exist", l))
    /\ UNCHANGED <<cfg, txn, files, inodes, handles, forumDBs>>
    /\ UNCHANGED <<activity, forumVars>>

\* deleteForumCategory: SELECT * FROM categories WHERE id = ?, then the
\* transaction of the two DELETEs
DeleteForumCategoryExist(t) ==
    /\ pc[t] = "dfc_exist"
    /\ LET l == loc[t]
       IN SetTask(t, IF cfg.cats[l.cid] = NoRow
                     THEN Finish(l, "err", "notfound")
                     ELSE At("tx_begin", [l EXCEPT !.idx = 1,
                                            !.queries = <<DelGrants(l.cid), DelCat(l.cid)>>]))
    /\ UNCHANGED <<cfg, txn, files, inodes, handles, forumDBs>>
    /\ UNCHANGED <<activity, forumVars>>

\* forumDB.close(callback), then this.forumDBs.delete(categoryId)
DeleteForumCategoryClose(t) ==
    /\ pc[t] = "dfc_close"
    /\ LET l == loc[t]
       IN \/ /\ SetTask(t, Finish(l, "err", "close"))
             /\ UNCHANGED <<handles, forumDBs, inodes>>
          \/ LET fdb == [forumDBs EXCEPT ![l.cid] = 0]
                 n == At("dfc_unlink", l)
                 h == SweepHandles([handles EXCEPT ![l.db].st = "closed"], fdb,
                                   [loc EXCEPT ![t] = n.loc])
             IN /\ forumDBs' = fdb
                /\ handles' = h
                /\ inodes' = SweepInodes(inodes, files, h)
                /\ SetTask(t, n)
    /\ UNCHANGED <<cfg, txn, files>>
    /\ UNCHANGED <<activity, forumVars>>

\* fs.unlink(forumDBPath): ENOENT is ignored, another failure only warned of
DeleteForumCategoryUnlink(t) ==
    /\ pc[t] = "dfc_unlink"
    /\ LET l == loc[t]
       IN /\ \E ok \in BOOLEAN :
                LET fl == IF ok THEN [files EXCEPT ![l.cid] = 0] ELSE files
                IN /\ files' = fl
                   /\ inodes' = SweepInodes(inodes, fl, handles)
          /\ SetTask(t, At("log", l))
    /\ UNCHANGED <<cfg, txn, handles, forumDBs>>
    /\ UNCHANGED <<activity, forumVars>>

\* ----------------------------------------------- AuthService.assignModerator
CatIds == 1..(MaxCat + 1)

CatExists(c, k) == k \in Cats /\ c.cats[k] # NoRow

GrantsOf(c, u) == {g \in c.grants : g[1] = u}

\* getUserById: the role of the row, "none" when there is no row
GetUserById(c, u) == IF u \in Users THEN c.role[u] ELSE "none"

CallAssignModerator(t) ==
    /\ Idle(t)
    /\ \E a \in Users, u \in UserIds, k \in CatIds :
          SetTask(t, At("perm", [BlankLoc EXCEPT !.op = "assignModerator", !.admin = a,
                                                   !.uid = u, !.cid = k, !.pre = cfg]))
    /\ UNCHANGED <<cfg, txn, files, inodes, handles, forumDBs>>
    /\ UNCHANGED <<activity, forumVars>>

\* const user = await this.getUserById(userId)
AssignModeratorUser(t) ==
    /\ pc[t] = "am_user"
    /\ LET l == loc[t]
           r == GetUserById(cfg, l.uid)
       IN SetTask(t, IF r = "none" THEN Finish(l, "err", "notfound")
                     ELSE At("am_category", [l EXCEPT !.user = r]))
    /\ UNCHANGED <<cfg, txn, files, inodes, handles, forumDBs>>
    /\ UNCHANGED <<activity, forumVars>>

\* SELECT id FROM categories WHERE id = ?
AssignModeratorCategory(t) ==
    /\ pc[t] = "am_category"
    /\ LET l == loc[t]
       IN SetTask(t, IF CatExists(cfg, l.cid) THEN At("am_existing", l)
                     ELSE Finish(l, "err", "notfound"))
    /\ UNCHANGED <<cfg, txn, files, inodes, handles, forumDBs>>
    /\ UNCHANGED <<activity, forumVars>>

\* after the check for an existing grant: the role is raised first, and only
\* for role 'user'
AssignAfterExisting(l) ==
    IF l.user = "user" THEN At("am_update", l) ELSE At("am_insert", l)

\* SELECT id FROM moderator_permissions WHERE user_id = ? AND category_id = ?
AssignModeratorExisting(t) ==
    /\ pc[t] = "am_existing"
    /\ LET l == loc[t]
       IN SetTask(t, IF <<l.uid, l.cid>> \in cfg.grants
                     THEN Finish(l, "err", "conflict")
                     ELSE AssignAfterExisting(l))
    /\ UNCHANGED <<cfg, txn, files, inodes, handles, forumDBs>>
    /\ UNCHANGED <<activity, forumVars>>

\* UPDATE users SET role = 'moderator'
AssignModeratorUpdate(t) ==
    /\ pc[t] = "am_update"
    /\ LET l == loc[t]
       IN \/ /\ SetTask(t, Finish(l, "err", "store"))
             /\ cfg' = cfg
          \/ /\ cfg' = [cfg EXCEPT !.role[l.uid] = "moderator"]
             /\ SetTask(t, At("am_insert", l))
    /\ UNCHANGED <<txn, files, inodes, handles, forumDBs>>
    /\ UNCHANGED <<activity, forumVars>>

\* INSERT INTO moderator_permissions (user_id, category_id)
AssignModeratorInsert(t) ==
    /\ pc[t] = "am_insert"
    /\ LET l == loc[t]
       IN \/ /\ SetTask(t, Finish(l, "err", "store"))
             /\ cfg' = cfg
          \/ /\ <<l.uid, l.cid>> \notin cfg.grants
             /\ cfg' = [cfg EXCEPT !.grants = @ \cup {<<l.uid, l.cid>>}]
             /\ SetTask(t, At("log", l))
    /\ UNCHANGED <<txn, files, inodes, handles, forumDBs>>
    /\ UNCHANGED <<activity, forumVars>>

\* ----------------------------------------------- AuthService.removeModerator
CallRemoveModerator(t) ==
    /\ Idle(t)
    /\ \E a \in Users, u \in UserIds, k \in CatIds :
          SetTask(t, At("perm", [BlankLoc EXCEPT !.op = "removeModerator", !.admin = a,
                                                   !.uid = u, !.cid = k, !.pre = cfg]))
    /\ UNCHANGED <<cfg, txn, files, inodes, handles, forumDBs>>
    /\ UNCHANGED <<activity, forumVars>>

\* SELECT id FROM moderator_permissions WHERE user_id = ? AND category_id = ?
RemoveModeratorExisting(t) ==
    /\ pc[t] = "rm_existing"
    /\ LET l == loc[t]
       IN SetTask(t, IF <<l.uid, l.cid>> \in cfg.grants
                     THEN At("rm_delete", l)
                     ELSE Finish(l, "err", "notfound"))
    /\ UNCHANGED <<cfg, txn, files, inodes, handles, forumDBs>>
    /\ UNCHANGED <<activity, forumVars>>

\* DELETE FROM moderator_permissions WHERE user_id = ? AND category_id = ?
RemoveModeratorDelete(t) ==
    /\ pc[t] = "rm_delete"
    /\ LET l == loc[t]
       IN \/ /\ SetTask(t, Finish(l, "err", "store"))
             /\ cfg' = cfg
          \/ /\ cfg' = [cfg EXCEPT !.grants = @ \ {<<l.uid, l.cid>>}]
             /\ SetTask(t, At("rm_count", l))
    /\ UNCHANGED <<txn, files, inodes, handles, forumDBs>>
    /\ UNCHANGED <<activity, forumVars>>

\* (variant: the role is looked at whatever the count is)
RemoveAfterCountUnchecked(l, count) ==
    At("rm_user", [l EXCEPT !.cnt = count])

\* if (remainingPermissions.count === 0) the user row is read
RemoveAfterCount(l, count) ==
    IF count = 0 THEN At("rm_user", [l EXCEPT !.cnt = count])
    ELSE At("log", [l EXCEPT !.cnt = count])

\* SELECT COUNT(*) FROM moderator_permissions WHERE user_id = ?
RemoveModeratorCount(t) ==
    /\ pc[t] = "rm_count"
    /\ SetTask(t, RemoveAfterCount(loc[t], Cardinality(GrantsOf(cfg, loc[t].uid))))
    /\ UNCHANGED <<cfg, txn, files, inodes, handles, forumDBs>>
    /\ UNCHANGED <<activity, forumVars>>

\* const user = await this.getUserById(userId); only a 'moderator' is demoted
RemoveModeratorUser(t) ==
    /\ pc[t] = "rm_user"
    /\ LET l == loc[t]
           r == GetUserById(cfg, l.uid)
       IN SetTask(t, IF r = "moderator" THEN At("rm_update", [l EXCEPT !.user = r])
                     ELSE At("log", [l EXCEPT !.user = r]))
    /\ UNCHANGED <<cfg, txn, files, inodes, handles, forumDBs>>
    /\ UNCHANGED <<activity, forumVars>>

\* UPDATE users SET role = 'user'
RemoveModeratorUpdate(t) ==
    /\ pc[t] = "rm_update"
    /\ LET l == loc[t]
       IN \/ /\ SetTask(t, Finish(l, "err", "store"))
             /\ cfg' = cfg
          \/ /\ cfg' = [cfg EXCEPT !.role[l.uid] = "user"]
             /\ SetTask(t, At("log", l))
    /\ UNCHANGED <<txn, files, inodes, handles, forumDBs>>
    /\ UNCHANGED <<activity, forumVars>>

\* ------------------------------------------------ AuthService.changeUserRole
CallChangeUserRole(t) ==
    /\ Idle(t)
    /\ \E a \in Users, u \in UserIds, r \in Roles \cup {"guest"} :
          SetTask(t, At("perm", [BlankLoc EXCEPT !.op = "changeUserRole", !.admin = a,
                                                   !.uid = u, !.newRole = r, !.pre = cfg]))
    /\ UNCHANGED <<cfg, txn, files, inodes, handles, forumDBs>>
    /\ UNCHANGED <<activity, forumVars>>

\* const targetUser = await this.getUserById(targetUserId)
ChangeUserRoleUser(t) ==
    /\ pc[t] = "cr_user"
    /\ LET l == loc[t]
           r == GetUserById(cfg, l.uid)
       IN SetTask(t, IF r = "none" THEN Finish(l, "err", "notfound")
                     ELSE At("cr_update", [l EXCEPT !.user = r]))
    /\ UNCHANGED <<cfg, txn, files, inodes, handles, forumDBs>>
    /\ UNCHANGED <<activity, forumVars>>

\* UPDATE users SET role = ?, updated_at = CURRENT_TIMESTAMP WHERE id = ?
ChangeUserRoleUpdate(t) ==
    /\ pc[t] = "cr_update"
    /\ LET l == loc[t]
       IN \/ /\ SetTask(t, Finish(l, "err", "store"))
             /\ cfg' = cfg
          \/ /\ cfg' = [cfg EXCEPT !.role[l.uid] = l.newRole]
             /\ SetTask(t, At("log", l))
    /\ UNCHANGED <<txn, files, inodes, handles, forumDBs>>
    /\ UNCHANGED <<activity, forumVars>>

\* ------------------------------------------- AdminService.updateCategoryOrder
\* orderData: one or two {id, displayOrder} items
OrderItems == {SetOrder(k, o) : k \in Cats, o \in 0..MaxOrder}
OrderData == {<<a>> : a \in OrderItems} \cup {<<a, b>> : a \in OrderItems, b \in OrderItems}

CallUpdateCategoryOrder(t) ==
    /\ Idle(t)
    /\ \E a \in Users, d \in OrderData :
          SetTask(t, At("perm", [BlankLoc EXCEPT !.op = "updateCategoryOrder", !.admin = a,
                                                   !.queries = d, !.pre = cfg]))
    /\ UNCHANGED <<cfg, txn, files, inodes, handles, forumDBs>>
    /\ UNCHANGED <<activity, forumVars>>

\* ------------------------------------------------ AuthService.checkPermission
\* the actions the switch knows, and one it does not
Actions ==
    {"read_posts", "write_posts", "moderate_category", "admin_site", "manage_users",
     "delete_category", "unknown_action"}

\* the switch on action for a user that is no super_admin; "grant" stands for
\* the lookup in moderator_permissions that decides
ActionSwitch(role, action) ==
    CASE action \in {"read_posts", "write_posts"} -> "true"
      [] action = "moderate_category" -> IF role = "moderator" THEN "grant" ELSE "false"
      [] OTHER -> "false"

\* (variant: the error of the users lookup is thrown on)
AfterGetUserByIdThrows(l, ok) ==
    IF ~ok THEN Finish([l EXCEPT !.hasError = TRUE], "err", "lookup")
    ELSE LET role == GetUserById(cfg, l.uid)
             sw == ActionSwitch(role, l.action)
         IN CASE role = "none" -> Finish([l EXCEPT !.val = FALSE], "ok", "none")
              [] role = "super_admin" -> Finish([l EXCEPT !.val = TRUE, !.user = role], "ok", "none")
              [] sw = "grant" -> At("cp_grant", [l EXCEPT !.user = role])
              [] OTHER -> Finish([l EXCEPT !.val = (sw = "true"), !.user = role], "ok", "none")

\* getUserById settled: its catch turns an error into null, null is "false"
AfterGetUserById(l, ok) ==
    IF ~ok THEN Finish([l EXCEPT !.hasError = TRUE, !.val = FALSE], "ok", "none")
    ELSE LET role == GetUserById(cfg, l.uid)
             sw == ActionSwitch(role, l.action)
         IN CASE role = "none" -> Finish([l EXCEPT !.val = FALSE], "ok", "none")
              [] role = "super_admin" -> Finish([l EXCEPT !.val = TRUE, !.user = role], "ok", "none")
              [] sw = "grant" -> At("cp_grant", [l EXCEPT !.user = role])
              [] OTHER -> Finish([l EXCEPT !.val = (sw = "true"), !.user = role], "ok", "none")

\* isModeratorOfCategory (a category is named) / hasAnyModeratorPermission
IsModeratorOfCategory(c, userId, categoryId) ==
    IF categoryId # 0 THEN <<userId, categoryId>> \in c.grants
    ELSE GrantsOf(c, userId) # {}

\* checkPermission(userId, action, resourceId): userId 0 is a missing id
CallCheckPermission(t) ==
    /\ Idle(t)
    /\ \E u \in {0} \cup UserIds, a \in Actions, k \in {0} \cup Cats :
          LET l == [BlankLoc EXCEPT !.op = "checkPermission", !.uid = u, !.action = a,
                                    !.cid = k, !.pre = cfg]
          IN SetTask(t, IF u = 0 THEN Finish([l EXCEPT !.val = FALSE], "ok", "none")
                        ELSE At("cp_user", l))
    /\ UNCHANGED <<cfg, txn, files, inodes, handles, forumDBs>>
    /\ UNCHANGED <<activity, forumVars>>

\* await this.getUserById(userId), then the switch
CheckPermissionUser(t) ==
    /\ pc[t] = "cp_user"
    /\ \E ok \in BOOLEAN : SetTask(t, AfterGetUserById(loc[t], ok))
    /\ UNCHANGED <<cfg, txn, files, inodes, handles, forumDBs>>
    /\ UNCHANGED <<activity, forumVars>>

\* await isModeratorOfCategory / hasAnyModeratorPermission: their catch
\* turns an error into false
CheckPermissionGrant(t) ==
    /\ pc[t] = "cp_grant"
    /\ LET l == loc[t]
       IN \E ok \in BOOLEAN :
             SetTask(t, IF ok
                        THEN Finish([l EXCEPT !.val = IsModeratorOfCategory(cfg, l.uid, l.cid)],
                                    "ok", "none")
                        ELSE Finish([l EXCEPT !.hasError = TRUE, !.val = FALSE], "ok", "none"))
    /\ UNCHANGED <<cfg, txn, files, inodes, handles, forumDBs>>
    /\ UNCHANGED <<activity, forumVars>>

\* ------------------------------------------------------------ ForumService
\* post ids a request may name: those AUTOINCREMENT hands out and one more
PostIds == 1..(MaxPosts + 1)
\* titles as the words the tokenizer of posts_fts makes of them
Titles == {{"alpha", "beta"}, {"alpha"}}
Body == {"gamma"}
Words == {"alpha", "beta", "gamma"}

\* createForumDB opens the connection and issues no PRAGMA foreign_keys = ON:
\* sqlite keeps foreign keys off on such a connection, and ON DELETE CASCADE
\* of comments and attachments does nothing
ForeignKeys == FALSE

\* the row of posts_fts that posts_ai and posts_au insert for a post
FtsEntry(r) == [rowid |-> r.id, title |-> r.title, content |-> r.content]

\* SELECT ... FROM posts WHERE id = ? AND category_id = ?
SelectPost(p, id, k) == {r \in p.posts : r.id = id /\ r.category_id = k}

\* (variant: the post is stored under the other key)
InsertPostOtherKey(p, k, u, title) ==
    LET r == [id |-> p.postSeq + 1, category_id |-> k + 1, user_id |-> u, title |-> title,
              content |-> Body, view_count |-> 0]
    IN [p EXCEPT !.posts = @ \cup {r}, !.postSeq = @ + 1, !.fts = @ \cup {FtsEntry(r)}]

\* INSERT INTO posts (category_id, ...) VALUES (subforumId, ...); trigger posts_ai
InsertPost(p, k, u, title) ==
    LET r == [id |-> p.postSeq + 1, category_id |-> k, user_id |-> u, title |-> title,
              content |-> Body, view_count |-> 0]
    IN [p EXCEPT !.posts = @ \cup {r}, !.postSeq = @ + 1, !.fts = @ \cup {FtsEntry(r)}]

\* (variant: posts_au only inserts the new entry)
TriggerPostsAuNoDelete(f, old, new) == f \cup {FtsEntry(new)}

\* trigger posts_au: the 'delete' command with the old values, then the insert
TriggerPostsAu(f, old, new) == (f \ {FtsEntry(old)}) \cup {FtsEntry(new)}

\* the fts rows after posts_au has fired for each pair <<old, new>> of rs
RECURSIVE FireAu(_, _)
FireAu(f, rs) ==
    IF rs = {} THEN f
    ELSE LET x == CHOOSE y \in rs : TRUE
         IN FireAu(TriggerPostsAu(f, x[1], x[2]), rs \ {x})

\* UPDATE posts SET title = ?, content = ? WHERE id = ? AND category_id = ?
UpdatePostRows(p, id, k, title) ==
    LET hit == SelectPost(p, id, k)
        chg == {<<r, [r EXCEPT !.title = title]>> : r \in hit}
    IN [p EXCEPT !.posts = (@ \ hit) \cup {x[2] : x \in chg}, !.fts = FireAu(@, chg)]

\* DELETE FROM posts WHERE id = ? AND category_id = ?; trigger posts_ad; the
\* cascade to comments and attachments when foreign keys are on
DeletePostRows(p, id, k) ==
    LET hit == SelectPost(p, id, k)
        gone == {r.id : r \in hit}
    IN [p EXCEPT !.posts = @ \ hit,
                 !.fts = @ \ {FtsEntry(r) : r \in hit},
                 !.comments = IF ForeignKeys THEN {c \in @ : c.post_id \notin gone} ELSE @,
                 !.attachments = IF ForeignKeys THEN {a \in @ : a.post_id \notin gone} ELSE @]

\* searchInSubforum's query: posts_fts MATCH ? joined to posts on rowid, for a
\* query of one word
SearchInSubforum(p, w, k) ==
    {r \in p.posts : r.category_id = k
                     /\ \E e \in p.fts : e.rowid = r.id /\ w \in (e.title \cup e.content)}

\* the await of getForumDB(subforumId) that every operation starts with: the
\* handle of forum_<subforumId>.db, or an error
AfterForumDB(l) ==
    CASE l.op = "createPost" -> At("post_insert", l)
      [] l.op = "updatePost" -> At("post_select", l)
      [] l.op = "deletePost" -> At("post_select", l)
      [] l.op = "createComment" -> At("post_select", l)
      [] l.op = "saveAttachment" -> At("attachment_insert", l)
      [] l.op = "getPost" -> At("post_select", l)
      [] l.op = "searchPosts" -> At("search_query", l)

\* what an operation does with an error: getPost's catch returns null
Throw(l, why) ==
    IF l.op = "getPost" THEN Finish([l EXCEPT !.post = 0], "ok", why)
    ELSE Finish(l, "err", why)

ForumGetForumDB(t) ==
    /\ pc[t] = "forum_db"
    /\ \E ok \in BOOLEAN :
          SetTask(t, IF ok THEN AfterForumDB(loc[t]) ELSE Throw(loc[t], "store"))
    /\ UNCHANGED <<cfg, txn, files, inodes, handles, forumDBs, activity, content, mgr>>

\* ForumService.createPost(userId, subforumId, title, content)
CallForumCreatePost(t) ==
    /\ Idle(t)
    /\ \E u \in Users, k \in Cats, ti \in Titles :
          SetTask(t, At("forum_db", [BlankLoc EXCEPT !.op = "createPost", !.uid = u, !.cid = k,
                                                       !.title = ti, !.pre = cfg]))
    /\ UNCHANGED <<cfg, txn, files, inodes, handles, forumDBs, activity, content, mgr>>

PostInsert(t) ==
    /\ pc[t] = "post_insert"
    /\ LET l == loc[t]
           p == content[l.cid]
       IN \E ok \in {b \in BOOLEAN : b => p.postSeq < MaxPosts} :
             IF ok
             THEN /\ content' = [content EXCEPT ![l.cid] = InsertPost(p, l.cid, l.uid, l.title)]
                  /\ SetTask(t, Finish([l EXCEPT !.pid = p.postSeq + 1], "ok", "none"))
             ELSE /\ content' = content
                  /\ SetTask(t, Throw(l, "insert"))
    /\ UNCHANGED <<cfg, txn, files, inodes, handles, forumDBs, activity, mgr>>

\* ForumService.updatePost(postId, subforumId, userId, title, content)
CallUpdatePost(t) ==
    /\ Idle(t)
    /\ \E u \in Users, k \in Cats, id \in PostIds, ti \in Titles :
          SetTask(t, At("forum_db", [BlankLoc EXCEPT !.op = "updatePost", !.uid = u, !.cid = k,
                                                       !.pid = id, !.title = ti, !.pre = cfg]))
    /\ UNCHANGED <<cfg, txn, files, inodes, handles, forumDBs, activity, content, mgr>>

\* POST /subforum/:subforumId/post/:postId/delete: isModerator is the role of
\* the session's user, then ForumService.deletePost(postId, subforumId, userId,
\* isModerator)
CallDeletePost(t) ==
    /\ Idle(t)
    /\ \E u \in Users, k \in Cats, id \in PostIds :
          SetTask(t, At("forum_db",
                [BlankLoc EXCEPT !.op = "deletePost", !.uid = u, !.cid = k, !.pid = id,
                                 !.isModerator = cfg.role[u] \in {"moderator", "super_admin"},
                                 !.pre = cfg]))
    /\ UNCHANGED <<cfg, txn, files, inodes, handles, forumDBs, activity, content, mgr>>

\* ForumService.createComment(userId, postId, subforumId, content)
CallCreateComment(t) ==
    /\ Idle(t)
    /\ \E u \in Users, k \in Cats, id \in PostIds :
          SetTask(t, At("forum_db", [BlankLoc EXCEPT !.op = "createComment", !.uid = u,
                                                       !.cid = k, !.pid = id, !.pre = cfg]))
    /\ UNCHANGED <<cfg, txn, files, inodes, handles, forumDBs, activity, content, mgr>>

\* ForumService.saveAttachment(postId, subforumId, file)
CallSaveAttachment(t) ==
    /\ Idle(t)
    /\ \E k \in Cats, id \in PostIds :
          SetTask(t, At("forum_db", [BlankLoc EXCEPT !.op = "saveAttachment", !.cid = k,
                                                       !.pid = id, !.pre = cfg]))
    /\ UNCHANGED <<cfg, txn, files, inodes, handles, forumDBs, activity, content, mgr>>

\* ForumService.getPost(postId, subforumId, incrementView)
CallGetPost(t) ==
    /\ Idle(t)
    /\ \E k \in Cats, id \in PostIds, inc \in BOOLEAN :
          SetTask(t, At("forum_db", [BlankLoc EXCEPT !.op = "getPost", !.cid = k, !.pid = id,
                                                       !.incrementView = inc, !.pre = cfg]))
    /\ UNCHANGED <<cfg, txn, files, inodes, handles, forumDBs, activity, content, mgr>>

\* the row is there: what each operation checks before it writes
AfterSelectPost(l, r) ==
    CASE l.op = "updatePost" ->
            IF r.user_id # l.uid THEN Throw(l, "forbidden") ELSE At("post_update", l)
      [] l.op = "deletePost" ->
            IF r.user_id # l.uid /\ ~l.isModerator THEN Throw(l, "forbidden")
            ELSE At("post_delete", [l EXCEPT !.author = r.user_id])
      [] l.op = "createComment" -> At("comment_insert", l)
      [] l.op = "getPost" -> At("post_user", [l EXCEPT !.post = r.id, !.views = r.view_count])

\* SELECT ... FROM posts WHERE id = ? AND category_id = ?
PostSelect(t) ==
    /\ pc[t] = "post_select"
    /\ LET l == loc[t]
           hit == SelectPost(content[l.cid], l.pid, l.cid)
       IN \E ok \in BOOLEAN :
             SetTask(t, IF ~ok THEN Throw(l, "query")
                        ELSE IF hit = {} THEN Throw(l, "notfound")
                        ELSE AfterSelectPost(l, CHOOSE r \in hit : TRUE))
    /\ UNCHANGED <<cfg, txn, files, inodes, handles, forumDBs, activity, content, mgr>>

\* UPDATE posts SET title = ?, content = ? ...: no row changed is an error
PostUpdate(t) ==
    /\ pc[t] = "post_update"
    /\ LET l == loc[t]
           p == content[l.cid]
       IN \E ok \in BOOLEAN :
             IF ok
             THEN /\ content' = [content EXCEPT ![l.cid] = UpdatePostRows(p, l.pid, l.cid, l.title)]
                  /\ SetTask(t, IF SelectPost(p, l.pid, l.cid) = {} THEN Throw(l, "nochange")
                                 ELSE Finish(l, "ok", "none"))
             ELSE /\ content' = content
                  /\ SetTask(t, Throw(l, "query"))
    /\ UNCHANGED <<cfg, txn, files, inodes, handles, forumDBs, activity, mgr>>

\* DELETE FROM posts WHERE id = ? AND category_id = ?
PostDelete(t) ==
    /\ pc[t] = "post_delete"
    /\ LET l == loc[t]
           p == content[l.cid]
       IN \E ok \in BOOLEAN :
             IF ok
             THEN /\ content' = [content EXCEPT ![l.cid] = DeletePostRows(p, l.pid, l.cid)]
                  /\ SetTask(t, IF SelectPost(p, l.pid, l.cid) = {} THEN Throw(l, "nochange")
                                 ELSE Finish(l, "ok", "none"))
             ELSE /\ content' = content
                  /\ SetTask(t, Throw(l, "query"))
    /\ UNCHANGED <<cfg, txn, files, inodes, handles, forumDBs, activity, mgr>>

\* INSERT INTO comments (post_id, user_id, ...); with foreign keys on the
\* insert needs its post.  Trigger comments_ai updates last_comment_at of the
\* post, and that update fires posts_au.
InsertComment(p, id, u) ==
    LET c == [id |-> p.commentSeq + 1, post_id |-> id, user_id |-> u]
        touched == {<<r, r>> : r \in {x \in p.posts : x.id = id}}
    IN [p EXCEPT !.comments = @ \cup {c}, !.commentSeq = @ + 1, !.fts = FireAu(@, touched)]

CommentInsert(t) ==
    /\ pc[t] = "comment_insert"
    /\ LET l == loc[t]
           p == content[l.cid]
           parent == \E r \in p.posts : r.id = l.pid
       IN \E ok \in {b \in BOOLEAN :
                       b => (p.commentSeq < MaxComments /\ (ForeignKeys => parent))} :
             IF ok
             THEN /\ content' = [content EXCEPT ![l.cid] = InsertComment(p, l.pid, l.uid)]
                  /\ SetTask(t, Finish(l, "ok", "none"))
             ELSE /\ content' = content
                  /\ SetTask(t, Throw(l, "insert"))
    /\ UNCHANGED <<cfg, txn, files, inodes, handles, forumDBs, activity, mgr>>

\* INSERT INTO attachments (post_id, ...): nothing looks the post up first
InsertAttachment(p, id) ==
    [p EXCEPT !.attachments = @ \cup {[id |-> p.attachmentSeq + 1, post_id |-> id]},
              !.attachmentSeq = @ + 1]

AttachmentInsert(t) ==
    /\ pc[t] = "attachment_insert"
    /\ LET l == loc[t]
           p == content[l.cid]
           parent == \E r \in p.posts : r.id = l.pid
       IN \E ok \in {b \in BOOLEAN :
                       b => (p.attachmentSeq < MaxAttachments /\ (ForeignKeys => parent))} :
             IF ok
             THEN /\ content' = [content EXCEPT ![l.cid] = InsertAttachment(p, l.pid)]
                  /\ SetTask(t, Finish(l, "ok", "none"))
             ELSE /\ content' = content
                  /\ SetTask(t, Throw(l, "insert"))
    /\ UNCHANGED <<cfg, txn, files, inodes, handles, forumDBs, activity, mgr>>

\* getPost: SELECT username, role FROM users WHERE id = ? on the config store
PostUser(t) ==
    /\ pc[t] = "post_user"
    /\ LET l == loc[t]
       IN \E ok \in BOOLEAN :
             SetTask(t, IF ~ok THEN Throw(l, "query")
                        ELSE IF l.incrementView THEN At("post_view", l)
                        ELSE At("post_rest", l))
    /\ UNCHANGED <<cfg, txn, files, inodes, handles, forumDBs, activity, content, mgr>>

\* post.view_count += 1 on the row that was read
ViewedPost(l) == [l EXCEPT !.views = @ + 1]

\* UPDATE posts SET view_count = view_count + 1 WHERE id = ?; trigger posts_au
IncrementView(p, id) ==
    LET hit == {r \in p.posts : r.id = id}
        chg == {<<r, [r EXCEPT !.view_count = @ + 1]>> : r \in hit}
    IN [p EXCEPT !.posts = (@ \ hit) \cup {x[2] : x \in chg}, !.fts = FireAu(@, chg)]

PostView(t) ==
    /\ pc[t] = "post_view"
    /\ LET l == loc[t]
           p == content[l.cid]
       IN \E ok \in {b \in BOOLEAN : b => \A r \in p.posts : r.view_count < MaxViews} :
             IF ok
             THEN /\ content' = [content EXCEPT ![l.cid] = IncrementView(p, l.pid)]
                  /\ SetTask(t, At("post_rest", ViewedPost(l)))
             ELSE /\ content' = content
                  /\ SetTask(t, Throw(l, "query"))
    /\ UNCHANGED <<cfg, txn, files, inodes, handles, forumDBs, activity, mgr>>

\* SELECT COUNT(*) FROM comments, then getAttachments (which turns its own
\* error into an empty list), then the post is returned
PostRest(t) ==
    /\ pc[t] = "post_rest"
    /\ LET l == loc[t]
       IN \E ok \in BOOLEAN :
             SetTask(t, IF ok THEN Finish(l, "ok", "none") ELSE Throw(l, "query"))
    /\ UNCHANGED <<cfg, txn, files, inodes, handles, forumDBs, activity, content, mgr>>

\* ------------------------------------------------- ForumService.getPosts
\* the posts of a partition as getPosts sees them: row i has id i
Stamps == 1..MaxStamp
RowSets ==
    UNION {[1..n -> [created_at : Stamps, last_comment_at : Stamps]] : n \in 0..MaxRows}

\* the sort column of row i
OrderColumn(rows, sortBy, i) ==
    IF sortBy = "last_comment_at" THEN rows[i].last_comment_at ELSE rows[i].created_at

\* row i comes before row j under ORDER BY column DESC; rows with the same
\* timestamp come in one of the orders sqlite may produce
Before(rows, sortBy, tie, i, j) ==
    \/ OrderColumn(rows, sortBy, i) > OrderColumn(rows, sortBy, j)
    \/ /\ OrderColumn(rows, sortBy, i) = OrderColumn(rows, sortBy, j)
       /\ IF tie = "asc" THEN i < j ELSE i > j

\* ORDER BY column DESC: the ids of ids in that order
RECURSIVE OrderByDesc(_, _, _, _)
OrderByDesc(rows, sortBy, tie, ids) ==
    IF ids = {} THEN <<>>
    ELSE LET first == CHOOSE i \in ids : \A j \in ids \ {i} : Before(rows, sortBy, tie, i, j)
         IN <<first>> \o OrderByDesc(rows, sortBy, tie, ids \ {first})

\* (variant: the offset leaves the requested page out too)
OffsetOfNext(page, limit) == page * limit

\* const offset = (page - 1) * limit
Offset(page, limit) == (page - 1) * limit

\* LIMIT ? OFFSET ? on the ordered rows
LimitOffset(sq, limit, offset) ==
    SubSeq(sq, offset + 1, IF offset + limit < Len(sq) THEN offset + limit ELSE Len(sq))

\* Math.ceil(totalCount / limit)
TotalPages(totalCount, limit) == (totalCount + limit - 1) \div limit

\* getPosts(subforumId, {sortBy, page, limit}) after its await of getForumDB
GetPostsQuery(t) ==
    /\ pc[t] = "posts_query"
    /\ LET l == loc[t]
           sorted == OrderByDesc(l.rows, l.sortBy, l.tie, DOMAIN l.rows)
       IN \E ok \in BOOLEAN :
             SetTask(t, IF ok
                        THEN At("posts_users",
                                [l EXCEPT !.posts = LimitOffset(sorted, l.limit,
                                                                Offset(l.page, l.limit))])
                        ELSE Finish(l, "err", "query"))
    /\ UNCHANGED <<cfg, txn, files, inodes, handles, forumDBs, activity, content, mgr>>

\* Promise.all of the users lookups: one that fails rejects the call
GetPostsUsers(t) ==
    /\ pc[t] = "posts_users"
    /\ \E ok \in {b \in BOOLEAN : ~b => loc[t].posts # <<>>} :
          SetTask(t, IF ok THEN At("posts_count", loc[t]) ELSE Finish(loc[t], "err", "query"))
    /\ UNCHANGED <<cfg, txn, files, inodes, handles, forumDBs, activity, content, mgr>>

\* SELECT COUNT(*) FROM posts WHERE category_id = ?, then the pagination
GetPostsCount(t) ==
    /\ pc[t] = "posts_count"
    /\ LET l == loc[t]
           totalCount == Len(l.rows)
           totalPages == TotalPages(totalCount, l.limit)
       IN \E ok \in BOOLEAN :
             SetTask(t, IF ok
                        THEN Finish([l EXCEPT !.pagination =
                                        [total_pages |-> totalPages,
                                         total_count |-> totalCount,
                                         has_next |-> l.page < totalPages,
                                         has_prev |-> l.page > 1]], "ok", "none")
                        ELSE Finish(l, "err", "query"))
    /\ UNCHANGED <<cfg, txn, files, inodes, handles, forumDBs, activity, content, mgr>>

\* ---------------------------------------------- ForumService.getPopularPosts
\* a moment: a calendar day and the time within the day
Days == 1..MaxDay
Secs == 0..MaxSec
Moments == [day : Days, sec : Secs]

\* the posts of a partition as getPopularPosts sees them: row i has id i
PopularRowSets ==
    UNION {[1..n -> [view_count : 0..MaxPopViews, created_at : Moments]] : n \in 0..MaxPopRows}

\* the separators between date and time: ' ' in datetime('now'), 'T' in
\* Date.prototype.toISOString()
SpaceChar == 32
TChar == 84

\* datetime('now'): 'YYYY-MM-DD HH:MM:SS'
SqliteDatetime(m) == <<m.day, SpaceChar, m.sec>>

\* cutoffDate.toISOString(): 'YYYY-MM-DDTHH:MM:SS.sssZ'
ToISOString(m) == <<m.day, TChar, m.sec>>

\* a >= b on TEXT values (memcmp)
TextGE(a, b) ==
    \/ a[1] > b[1]
    \/ a[1] = b[1] /\ a[2] > b[2]
    \/ a[1] = b[1] /\ a[2] = b[2] /\ a[3] >= b[3]

\* WHERE p.category_id = ? AND p.created_at >= ?
PopularWhere(rows, cutoff) ==
    {i \in DOMAIN rows : TextGE(SqliteDatetime(rows[i].created_at), ToISOString(cutoff))}

\* row i comes before row j under ORDER BY p.view_count DESC [, p.created_at DESC];
\* rows the ORDER BY does not tell apart come in one of the orders sqlite may produce
PopularBefore(rows, byCreated, tie, i, j) ==
    LET a == rows[i]
        b == rows[j]
        same == /\ a.view_count = b.view_count
                /\ byCreated => a.created_at = b.created_at
    IN \/ a.view_count > b.view_count
       \/ /\ byCreated
          /\ a.view_count = b.view_count
          /\ SqliteDatetime(a.created_at) # SqliteDatetime(b.created_at)
          /\ TextGE(SqliteDatetime(a.created_at), SqliteDatetime(b.created_at))
       \/ same /\ (IF tie = "asc" THEN i < j ELSE i > j)

RECURSIVE PopularOrderBy(_, _, _, _)
PopularOrderBy(rows, byCreated, tie, ids) ==
    IF ids = {} THEN <<>>
    ELSE LET first == CHOOSE i \in ids :
                          \A j \in ids \ {i} : PopularBefore(rows, byCreated, tie, i, j)
         IN <<first>> \o PopularOrderBy(rows, byCreated, tie, ids \ {first})

\* the SELECT of one partition: its posts as <<category, id>>
PopularSelect(l, k, byCreated, tie) ==
    LET rows == l.parts[k]
        sorted == PopularOrderBy(rows, byCreated, tie, PopularWhere(rows, l.cutoff))
        page == LimitOffset(sorted, l.limit, 0)
    IN [i \in DOMAIN page |-> <<k, page[i]>>]

\* allPosts.sort((a, b) => b.view_count - a.view_count): a stable sort
RECURSIVE SortByViewCount(_, _)
SortByViewCount(l, sq) ==
    IF sq = <<>> THEN <<>>
    ELSE LET v(i) == l.parts[sq[i][1]][sq[i][2]].view_count
             first == CHOOSE i \in DOMAIN sq :
                          /\ \A j \in DOMAIN sq : v(i) >= v(j)
                          /\ \A j \in 1..(i - 1) : v(j) < v(i)
         IN <<sq[first]>> \o
            SortByViewCount(l, [j \in 1..(Len(sq) - 1) |-> IF j < first THEN sq[j] ELSE sq[j + 1]])

\* getPopularPosts(subforumId, limit, days): one partition has been read
PopularPartition(t) ==
    /\ pc[t] = "popular_partition"
    /\ LET l == loc[t]
       IN IF l.cid # 0
          THEN \E ok \in BOOLEAN, tie \in {"asc", "desc"} :
                  SetTask(t, IF ok
                             THEN Finish([l EXCEPT !.posts = PopularSelect(l, l.cid, TRUE, tie)],
                                         "ok", "none")
                             ELSE Finish(l, "err", "query"))
          ELSE IF l.pending = {}
               THEN SetTask(t, At("popular_sort", l))
               ELSE LET k == CHOOSE x \in l.pending : \A y \in l.pending : x <= y
                        n == [l EXCEPT !.pending = @ \ {k}]
                    IN \E ok \in BOOLEAN, tie \in {"asc", "desc"} :
                          SetTask(t, At("popular_partition",
                                        IF ok
                                        THEN [n EXCEPT !.allPosts =
                                                  @ \o PopularSelect(l, k, FALSE, tie)]
                                        ELSE [n EXCEPT !.failed = @ \cup {k}]))
    /\ UNCHANGED <<cfg, txn, files, inodes, handles, forumDBs, activity, content, mgr>>

\* return allPosts.sort(...).slice(0, limit)
PopularSort(t) ==
    /\ pc[t] = "popular_sort"
    /\ LET l == loc[t]
       IN SetTask(t, Finish([l EXCEPT !.posts =
                                LimitOffset(SortByViewCount(l, l.allPosts), l.limit, 0)],
                            "ok", "none"))
    /\ UNCHANGED <<cfg, txn, files, inodes, handles, forumDBs, activity, content, mgr>>

\* SELECT ... FROM categories WHERE is_active = 1
ActiveCategories(c) == {k \in Cats : c.cats[k] # NoRow}

\* ------------------------------- createComment and the last activity time
\* the posts of a partition with their times: row i has id i; a post is
\* created with last_comment_at = created_at, and comments move it on
ActivityRowSets ==
    UNION {[1..n -> {r \in [created_at : Stamps, last_comment_at : Stamps] :
                        r.created_at <= r.last_comment_at}] : n \in 0..MaxActRows}

\* trigger comments_ai: UPDATE posts SET last_comment_at = CURRENT_TIMESTAMP
\* WHERE id = new.post_id
CommentsAi(objects, rows, id, now) ==
    IF "comments_ai" \in objects /\ id \in DOMAIN rows
    THEN [rows EXCEPT ![id].last_comment_at = now]
    ELSE rows

\* createComment(userId, postId, subforumId, content): getForumDB, the
\* SELECT of the post, and the INSERT with datetime('now') that fires comments_ai
ActivityCreateComment(t) ==
    /\ pc[t] = "activity_comment"
    /\ LET l == loc[t]
           k == l.bumped[1]
           id == l.bumped[2]
           rows == l.parts[k]
       IN \E ok \in BOOLEAN :
             SetTask(t, IF ok /\ id \in DOMAIN rows
                        THEN Finish([l EXCEPT !.prev = rows[id].last_comment_at,
                                              !.parts[k] = CommentsAi(content[k].objects, rows,
                                                                      id, l.now)],
                                    "ok", "none")
                        ELSE Finish(l, "err", "post"))
    /\ UNCHANGED <<cfg, txn, files, inodes, handles, forumDBs, activity, content, mgr>>

\* after the comment: getPosts(subforumId, {sortBy, page, limit}) or
\* getRecentActivityPosts(subforumId, limit)
CallActivityRead(t) ==
    /\ pc[t] = "done"
    /\ loc[t].op = "createComment"
    /\ loc[t].res = "ok"
    /\ LET l == loc[t]
       IN \/ \E k \in Cats, sb \in {"created_at", "last_comment_at"}, p \in 1..MaxPage,
                lm \in 1..MaxLimit, ti \in {"asc", "desc"} :
                SetTask(t, At("posts_query",
                              [l EXCEPT !.op = "getPosts", !.cid = k, !.rows = l.parts[k],
                                        !.sortBy = sb, !.page = p, !.limit = lm, !.tie = ti,
                                        !.res = "none"]))
          \/ \E k \in {0} \cup Cats, lm \in 1..MaxLimit :
                SetTask(t, At("recent_partition",
                              [l EXCEPT !.op = "getRecentActivityPosts", !.cid = k, !.limit = lm,
                                        !.pending = IF k = 0 THEN ActiveCategories(cfg) ELSE {},
                                        !.res = "none"]))
    /\ UNCHANGED <<cfg, txn, files, inodes, handles, forumDBs, activity, content, mgr>>

\* the SELECT of one partition: ORDER BY p.last_comment_at DESC LIMIT ?
RecentSelect(l, k, lim, tie) ==
    LET rows == l.parts[k]
        page == LimitOffset(OrderByDesc(rows, "last_comment_at", tie, DOMAIN rows), lim, 0)
    IN [i \in DOMAIN page |-> <<k, page[i]>>]

\* allPosts.sort((a, b) => new Date(b.last_comment_at) - new Date(a.last_comment_at)):
\* a stable sort
RECURSIVE SortByLastComment(_, _)
SortByLastComment(l, sq) ==
    IF sq = <<>> THEN <<>>
    ELSE LET v(i) == l.parts[sq[i][1]][sq[i][2]].last_comment_at
             first == CHOOSE i \in DOMAIN sq :
                          /\ \A j \in DOMAIN sq : v(i) >= v(j)
                          /\ \A j \in 1..(i - 1) : v(j) < v(i)
         IN <<sq[first]>> \o
            SortByLastComment(l, [j \in 1..(Len(sq) - 1) |-> IF j < first THEN sq[j] ELSE sq[j + 1]])

\* getRecentActivityPosts(subforumId, limit): one partition has been read
RecentPartition(t) ==
    /\ pc[t] = "recent_partition"
    /\ LET l == loc[t]
           n == Cardinality(ActiveCategories(cfg))
       IN IF l.cid # 0
          THEN \E ok \in BOOLEAN, tie \in {"asc", "desc"} :
                  SetTask(t, IF ok
                             THEN Finish([l EXCEPT !.posts = RecentSelect(l, l.cid, l.limit, tie)],
                                         "ok", "none")
                             ELSE Finish(l, "err", "query"))
          ELSE IF l.pending = {}
               THEN SetTask(t, At("recent_sort", l))
               ELSE LET k == CHOOSE x \in l.pending : \A y \in l.pending : x <= y
                        m == [l EXCEPT !.pending = @ \ {k}]
                    IN \E ok \in BOOLEAN, tie \in {"asc", "desc"} :
                          SetTask(t, At("recent_partition",
                                        IF ok
                                        THEN [m EXCEPT !.allPosts =
                                                  @ \o RecentSelect(l, k, TotalPages(l.limit, n),
                                                                    tie)]
                                        ELSE [m EXCEPT !.failed = @ \cup {k}]))
    /\ UNCHANGED <<cfg, txn, files, inodes, handles, forumDBs, activity, content, mgr>>

\* return allPosts.sort(...).slice(0, limit)
RecentSort(t) ==
    /\ pc[t] = "recent_sort"
    /\ LET l == loc[t]
       IN SetTask(t, Finish([l EXCEPT !.posts =
                                LimitOffset(SortByLastComment(l, l.allPosts), l.limit, 0)],
                            "ok", "none"))
    /\ UNCHANGED <<cfg, txn, files, inodes, handles, forumDBs, activity, content, mgr>>

\* ------------------------------------------------ ForumService.searchPosts
\* a query: blanks and the word "alpha"
Queries == UNION {[1..n -> {" ", "alpha"}] : n \in 0..MaxQuery}

\* query.trim()
RECURSIVE Trim(_)
Trim(q) ==
    IF q = <<>> THEN q
    ELSE IF Head(q) = " " THEN Trim(Tail(q))
    ELSE IF q[Len(q)] = " " THEN Trim(SubSeq(q, 1, Len(q) - 1))
    ELSE q

\* (variant: the query is not trimmed)
IsBlankUntrimmed(q) == q = <<>> \/ Len(q) = 0

\* !query || query.trim().length === 0
IsBlank(q) == q = <<>> \/ Len(Trim(q)) = 0

\* the answer to a blank query
NoPagination == [total_pages |-> 0, total_count |-> 0, has_next |-> FALSE, has_prev |-> FALSE]

\* searchPosts(query, {subforumId, page, limit})
CallSearchPosts(t) ==
    /\ Idle(t)
    /\ \E q \in Queries, k \in {0} \cup Cats, p \in 1..MaxPage, lm \in 1..MaxLimit :
          LET l == [BlankLoc EXCEPT !.op = "searchPosts", !.query = q, !.cid = k, !.page = p,
                                    !.limit = lm, !.word = "alpha", !.pre = cfg]
          IN SetTask(t, IF IsBlank(q)
                        THEN Finish([l EXCEPT !.posts = <<>>, !.pagination = NoPagination],
                                    "ok", "none")
                        ELSE IF k # 0 THEN At("forum_db", l) ELSE At("fan_list", l))
    /\ UNCHANGED <<cfg, txn, files, inodes, handles, forumDBs, activity, content, mgr>>

\* searchInSubforum after getForumDB: the subforum, the MATCH query, the
\* users and the count
SearchSubforum(t) ==
    /\ pc[t] = "search_query"
    /\ LET l == loc[t]
           hits == SearchInSubforum(content[l.cid], l.word, l.cid)
           totalCount == Cardinality(hits)
           totalPages == TotalPages(totalCount, l.limit)
       IN \E ok \in BOOLEAN :
             SetTask(t, IF ok /\ cfg.cats[l.cid] # NoRow
                        THEN Finish([l EXCEPT !.found = {<<l.cid, r.id>> : r \in hits},
                                              !.pagination =
                                                  [total_pages |-> totalPages,
                                                   total_count |-> totalCount,
                                                   has_next |-> l.page < totalPages,
                                                   has_prev |-> l.page > 1]], "ok", "none")
                        ELSE Finish(l, "err", "query"))
    /\ UNCHANGED <<cfg, txn, files, inodes, handles, forumDBs, activity, content, mgr>>

\* ------------------------------------------ DatabaseManager.createForumTables
\* createForumTables(db): the file is read and split into statements
CallCreateForumTables(t) ==
    /\ Idle(t)
    /\ loc[t].run < MaxRuns
    /\ \E k \in Cats, ok \in BOOLEAN :
          LET l == [loc[t] EXCEPT !.op = "createForumTables", !.cid = k, !.idx = 1,
                                  !.run = @ + 1, !.snap = content[k].objects,
                                  !.cnt = Cardinality(content[k].posts),
                                  !.res = "none", !.why = "none"]
          IN SetTask(t, IF ok
                        THEN At("schema_stmt", [l EXCEPT !.stmts = ParseSQLStatements(SchemaFile)])
                        ELSE Finish(l, "err", "io"))
    /\ UNCHANGED <<cfg, txn, files, inodes, handles, forumDBs, activity, content, mgr>>

\* for (const statement of statements) await this.runQuery(db, statement)
SchemaStatement(t) ==
    /\ pc[t] = "schema_stmt"
    /\ LET l == loc[t]
           k == l.cid
       IN IF l.idx > Len(l.stmts)
          THEN SetTask(t, Finish(l, "ok", "none")) /\ UNCHANGED content
          ELSE \/ \* the store cannot be written
                  /\ SetTask(t, Finish(l, "err", "io"))
                  /\ UNCHANGED content
               \/ LET r == RunStatement(content[k].objects, l.stmts[l.idx])
                  IN /\ content' = [content EXCEPT ![k].objects = r.objects]
                     /\ SetTask(t, IF r.err = "none"
                                    THEN At("schema_stmt", [l EXCEPT !.idx = @ + 1])
                                    ELSE Finish(l, "err", r.err))
    /\ UNCHANGED <<cfg, txn, files, inodes, handles, forumDBs, activity, mgr>>

\* the caller of createForumTables has its result; the count of runs is kept
SchemaReturn(t) ==
    /\ pc[t] = "done"
    /\ loc[t].op = "createForumTables"
    /\ pc' = [pc EXCEPT ![t] = "idle"]
    /\ UNCHANGED <<cfg, txn, files, inodes, handles, forumDBs, loc, activity, content, mgr>>

\* ---------------------------------------- DatabaseManager.validateForumSchema
RequiredTables == {"posts", "comments", "posts_fts"}
RequiredTriggers == {"posts_ai", "posts_ad", "posts_au", "comments_ai", "comments_au"}

\* createForumTables(db) from its first statement to its last, or to the
\* first one that fails
RECURSIVE RunStatements(_, _, _)
RunStatements(objects, stmts, i) ==
    IF i > Len(stmts) THEN [err |-> "none", objects |-> objects]
    ELSE LET r == RunStatement(objects, stmts[i])
         IN IF r.err # "none" THEN r ELSE RunStatements(r.objects, stmts, i + 1)

CreateForumTables(objects) == RunStatements(objects, ParseSQLStatements(SchemaFile), 1)

\* validateForumSchema has its verdict.  validateAllForumSchemas goes on to
\* initializeForumSchema after a first verdict of false, and
\* initializeForumSchema throws on a second one, which is caught
AfterValidate(l, verdict) ==
    IF l.op = "validateForumSchema" THEN Finish([l EXCEPT !.val = verdict], "ok", "none")
    ELSE IF l.via = "validate"
         THEN IF verdict THEN Finish([l EXCEPT !.val = TRUE, !.first = "valid"], "ok", "none")
              ELSE At("initialize_db", [l EXCEPT !.first = "invalid", !.via = "initialize"])
         ELSE Finish([l EXCEPT !.val = verdict], "ok", IF verdict THEN "none" ELSE "invalid")

\* this.forumDBs.has(categoryId)
GetForumDBCached(fdb, k) == fdb[k] # 0

\* await this.getForumDB(categoryId) as one step: the cached handle, or
\* createForumDB, which opens the file and applies the schema
GetForumDBWhole(t, next, failed) ==
    LET k == loc[t].cid
    IN IF GetForumDBCached(forumDBs, k)
       THEN /\ SetTask(t, next)
            /\ UNCHANGED <<handles, forumDBs, content>>
       ELSE \/ /\ SetTask(t, failed)
               /\ UNCHANGED <<handles, forumDBs, content>>
            \/ /\ forumDBs[k] # 0 \/ \E h \in Handles : h \notin HandleRefs(forumDBs, loc)
               /\ LET r == CreateForumTables(content[k].objects)
                      h == IF forumDBs[k] # 0 THEN forumDBs[k]
                           ELSE FreshHandle(handles, forumDBs, loc)
                  IN /\ r.err = "none"
                     /\ content' = [content EXCEPT ![k].objects = r.objects]
                     /\ handles' = [handles EXCEPT ![h] = [st |-> "open", ino |-> files[k]]]
                     /\ forumDBs' = [forumDBs EXCEPT ![k] = h]
                     /\ SetTask(t, next)

\* validateForumSchema(categoryId), or validateAllForumSchemas at one category
CallValidate(t) ==
    /\ Idle(t)
    /\ mgr.isInitialized
    /\ \E k \in Cats, o \in {"validateForumSchema", "validateAllForumSchemas"} :
          SetTask(t, At("validate_db", [BlankLoc EXCEPT !.op = o, !.cid = k, !.via = "validate"]))
    /\ UNCHANGED <<cfg, txn, files, inodes, handles, forumDBs, activity, content, mgr>>

\* validateForumSchema: const forumDB = await this.getForumDB(categoryId);
\* an error is caught and answered with false
ValidateGetForumDB(t) ==
    /\ pc[t] = "validate_db"
    /\ GetForumDBWhole(t, At("validate_tables", loc[t]),
                       AfterValidate([loc[t] EXCEPT !.hasError = TRUE], FALSE))
    /\ UNCHANGED <<cfg, txn, files, inodes, activity, mgr>>

\* SELECT name FROM sqlite_master WHERE type='table'
ValidateTables(t) ==
    /\ pc[t] = "validate_tables"
    /\ LET l == loc[t]
       IN \E ok \in BOOLEAN :
             SetTask(t, IF ~ok THEN AfterValidate([l EXCEPT !.hasError = TRUE], FALSE)
                        ELSE IF RequiredTables \subseteq content[l.cid].objects
                             THEN At("validate_triggers", l)
                             ELSE AfterValidate(l, FALSE))
    /\ UNCHANGED <<cfg, txn, files, inodes, handles, forumDBs, activity, content, mgr>>

\* SELECT name FROM sqlite_master WHERE type='trigger'
ValidateTriggers(t) ==
    /\ pc[t] = "validate_triggers"
    /\ LET l == loc[t]
       IN \E ok \in BOOLEAN :
             SetTask(t, IF ~ok THEN AfterValidate([l EXCEPT !.hasError = TRUE], FALSE)
                        ELSE AfterValidate(l, RequiredTriggers \subseteq content[l.cid].objects))
    /\ UNCHANGED <<cfg, txn, files, inodes, handles, forumDBs, activity, content, mgr>>

\* initializeForumSchema: const forumDB = await this.dbManager.getForumDB(categoryId),
\* then validateForumSchema(categoryId); its error is caught by validateAllForumSchemas
InitializeGetForumDB(t) ==
    /\ pc[t] = "initialize_db"
    /\ GetForumDBWhole(t, At("validate_db", loc[t]),
                       Finish([loc[t] EXCEPT !.hasError = TRUE, !.val = FALSE], "ok", "store"))
    /\ UNCHANGED <<cfg, txn, files, inodes, activity, mgr>>

\* between two requests an object of a complete store is dropped from
\* outside, with the indexes and triggers on it
SchemaDrift ==
    /\ \A t \in Tasks : Idle(t)
    /\ \E k \in Cats, o \in SchemaObjects :
          /\ content[k].objects = SchemaObjects
          /\ content' = [content EXCEPT ![k].objects = @ \ Dropped(o)]
    /\ UNCHANGED <<cfg, txn, files, inodes, handles, forumDBs, pc, loc, activity, mgr>>

\* ------------------------------------------------------ fan-out operations
\* the operations that visit every active category's partition
FanOutOps ==
    {"getSubforums", "getPublicStatistics", "getPopularPosts", "getRecentActivityPosts",
     "searchPosts"}

\* getSubforumStats of a partition that answers
SubforumStats(p, k) ==
    [post_count |-> Cardinality({r \in p.posts : r.category_id = k}),
     comment_count |-> Cardinality({c \in p.comments :
                                      \E r \in p.posts : r.id = c.post_id /\ r.category_id = k})]

\* getSubforumStats's catch: the statistics of a partition that fails
ZeroStats == [post_count |-> 0, comment_count |-> 0]

\* the posts a partition adds to allPosts / allResults, as <<category, id>>
PartitionPosts(l, p, k) ==
    IF l.op = "searchPosts" THEN {<<k, r.id>> : r \in SearchInSubforum(p, l.word, k)}
    ELSE {<<k, r.id>> : r \in {x \in p.posts : x.category_id = k}}

\* (variant: the error of a partition is thrown on)
AfterPartitionThrows(l, k, ok) ==
    IF ~ok THEN Finish([l EXCEPT !.failed = @ \cup {k}], "err", "store")
    ELSE LET p == content[k]
             st == SubforumStats(p, k)
             n == [l EXCEPT !.pending = @ \ {k}]
         IN At("fan_partition",
               CASE l.op = "getSubforums" -> [n EXCEPT !.stats = @ @@ (k :> st)]
                 [] l.op = "getPublicStatistics" -> [n EXCEPT !.totalPosts = @ + st.post_count]
                 [] OTHER -> [n EXCEPT !.found = @ \cup PartitionPosts(l, p, k)])

\* one partition has been visited: what it adds, and the catch around it
AfterPartition(l, k, ok) ==
    LET p == content[k]
        st == IF ok THEN SubforumStats(p, k) ELSE ZeroStats
        n == [l EXCEPT !.pending = @ \ {k}, !.failed = IF ok THEN @ ELSE @ \cup {k}]
    IN At("fan_partition",
          CASE l.op = "getSubforums" -> [n EXCEPT !.stats = @ @@ (k :> st)]
            [] l.op = "getPublicStatistics" -> [n EXCEPT !.totalPosts = @ + st.post_count]
            [] OTHER -> [n EXCEPT !.found = IF ok THEN @ \cup PartitionPosts(l, p, k) ELSE @])

\* getSubforums(), getPublicStatistics(), getPopularPosts(null),
\* getRecentActivityPosts(null), searchPosts(query) with no subforumId
CallFanOut(t) ==
    /\ Idle(t)
    /\ \E o \in FanOutOps, w \in Words :
          (o = "searchPosts" \/ w = "alpha")
          /\ SetTask(t, At("fan_list", [BlankLoc EXCEPT !.op = o, !.word = w, !.query = <<w>>,
                                                     !.pre = cfg]))
    /\ UNCHANGED <<cfg, txn, files, inodes, handles, forumDBs, activity, content, mgr>>

\* the list of the active categories from the config store: its failure is
\* thrown, except by getPublicStatistics, which answers with zeros
FanOutList(t) ==
    /\ pc[t] = "fan_list"
    /\ LET l == loc[t]
       IN \E ok \in BOOLEAN :
             SetTask(t, IF ok THEN At("fan_partition", [l EXCEPT !.pending = ActiveCategories(cfg)])
                        ELSE IF l.op = "getPublicStatistics"
                             THEN Finish([l EXCEPT !.hasError = TRUE], "ok", "none")
                             ELSE Finish([l EXCEPT !.hasError = TRUE], "err", "config"))
    /\ UNCHANGED <<cfg, txn, files, inodes, handles, forumDBs, activity, content, mgr>>

\* the visit of one partition (getForumDB and the queries on it) settles:
\* getSubforums visits them side by side (Promise.all), the others in turn
FanOutPartition(t) ==
    /\ pc[t] = "fan_partition"
    /\ LET l == loc[t]
       IN IF l.pending = {}
          THEN SetTask(t, Finish(l, "ok", "none"))
          ELSE \E k \in l.pending, ok \in BOOLEAN :
                  /\ (l.op # "getSubforums" => \A j \in l.pending : k <= j)
                  /\ SetTask(t, AfterPartition(l, k, ok))
    /\ UNCHANGED <<cfg, txn, files, inodes, handles, forumDBs, activity, content, mgr>>

\* ------------------------------------------------- DatabaseManager.close
IsConnected(m) == m.isInitialized /\ m.configDB # "null"

IsForumDBConnected(fdb, categoryId) == fdb[categoryId] # 0

GetConnectedForumDBs(fdb) == {k \in Cats : fdb[k] # 0}

\* close()
CallClose(t) ==
    /\ Idle(t)
    /\ SetTask(t, At("close_config", [BlankLoc EXCEPT !.op = "close"]))
    /\ UNCHANGED <<cfg, txn, files, inodes, handles, forumDBs, activity, content, mgr>>

\* if (this.configDB) await configDB.close(); this.configDB = null
CloseConfig(t) ==
    /\ pc[t] = "close_config"
    /\ LET l == loc[t]
           go == At("close_forum", [l EXCEPT !.pending = GetConnectedForumDBs(forumDBs)])
       IN IF mgr.configDB = "null"
          THEN SetTask(t, go) /\ UNCHANGED mgr
          ELSE \/ \* reject(err): caught, logged and thrown again
                  /\ SetTask(t, Finish([l EXCEPT !.failed = {0}], "err", "config"))
                  /\ UNCHANGED mgr
               \/ /\ mgr' = [mgr EXCEPT !.configDB = "null"]
                  /\ SetTask(t, go)
    /\ UNCHANGED <<cfg, txn, files, inodes, handles, forumDBs, activity, content>>

\* for (const [categoryId, db] of this.forumDBs) await db.close();
\* then forumDBs.clear() and isInitialized = false
CloseForum(t) ==
    /\ pc[t] = "close_forum"
    /\ LET l == loc[t]
       IN IF l.pending = {}
          THEN LET fdb == [k \in Cats |-> 0]
                   n == Finish(l, "ok", "none")
                   h == SweepHandles(handles, fdb, [loc EXCEPT ![t] = n.loc])
               IN /\ forumDBs' = fdb
                  /\ mgr' = [mgr EXCEPT !.isInitialized = FALSE]
                  /\ handles' = h
                  /\ inodes' = SweepInodes(inodes, files, h)
                  /\ SetTask(t, n)
          ELSE \E k \in l.pending :
                  \/ \* reject(err): caught, logged and thrown again
                     /\ SetTask(t, Finish([l EXCEPT !.failed = {k}], "err", "store"))
                     /\ UNCHANGED <<forumDBs, mgr, handles, inodes>>
                  \/ /\ handles[forumDBs[k]].st = "open"
                     /\ handles' = [handles EXCEPT ![forumDBs[k]].st = "closed"]
                     /\ inodes' = SweepInodes(inodes, files, handles')
                     /\ SetTask(t, At("close_forum", [l EXCEPT !.pending = @ \ {k}]))
                     /\ UNCHANGED <<forumDBs, mgr>>
    /\ UNCHANGED <<cfg, txn, files, activity, content>>

\* ------------------------------------------------------------ specifications
\* the registry under two concurrent requests
Next ==
    \E t \in Tasks :
        \/ CallGetForumDB(t)
        \/ CreateForumDBOpen(t)
        \/ CreateForumTablesStmt(t)
        \/ Return(t)

Spec == Init /\ [][Next]_vars

\* category administration and posting, one request at a time
NextCat ==
    \/ CallCreateCategory("t1")
    \/ CallDeleteCategory("t1")
    \/ CallCreatePost("t1")
    \/ Permission("t1")
    \/ CreateCategoryDup("t1")
    \/ CreateNewForumCategoryInsert("t1")
    \/ CreateForumDBOpen("t1")
    \/ CreateForumTablesStmt("t1")
    \/ CreatePostInsert("t1")
    \/ DeleteCategoryExist("t1")
    \/ DeleteCategoryCount("t1")
    \/ DeleteForumCategoryExist("t1")
    \/ TxBegin("t1")
    \/ TxQuery("t1")
    \/ TxEnd("t1")
    \/ DeleteForumCategoryClose("t1")
    \/ DeleteForumCategoryUnlink("t1")
    \/ LogUserActivity("t1")
    \/ Return("t1")

SpecCat == Init /\ [][NextCat]_vars

\* the site with its categories 1..MaxCat created, every partition
\* initialized, no handle cached yet (the state after a restart)
InitAdmin ==
    /\ cfg = [FreshCfg EXCEPT !.cats = [c \in Cats |-> 0], !.seq = MaxCat]
    /\ txn = NoTxn
    /\ files = [k \in Cats |-> k]
    /\ inodes = [i \in Inodes |-> IF i \in Cats
                                  THEN [used |-> TRUE, schema |-> NStmts, posts |-> 0]
                                  ELSE FreeInode]
    /\ handles = [h \in Handles |-> FreeHandle]
    /\ forumDBs = [k \in Cats |-> 0]
    /\ pc = [t \in Tasks |-> "idle"]
    /\ loc = [t \in Tasks |-> BlankLoc]
    /\ activity = 0
    /\ content = [k \in Cats |-> EmptyPartition]
    /\ mgr = ReadyMgr

\* moderator grants, category order and category deletion, one request at a
\* time
NextAdmin ==
    \/ CallAssignModerator("t1")
    \/ CallRemoveModerator("t1")
    \/ CallUpdateCategoryOrder("t1")
    \/ CallDeleteCategory("t1")
    \/ Permission("t1")
    \/ DeleteCategoryExist("t1")
    \/ CreateForumDBOpen("t1")
    \/ CreateForumTablesStmt("t1")
    \/ DeleteCategoryCount("t1")
    \/ DeleteForumCategoryExist("t1")
    \/ DeleteForumCategoryClose("t1")
    \/ DeleteForumCategoryUnlink("t1")
    \/ AssignModeratorUser("t1")
    \/ AssignModeratorCategory("t1")
    \/ AssignModeratorExisting("t1")
    \/ AssignModeratorUpdate("t1")
    \/ AssignModeratorInsert("t1")
    \/ RemoveModeratorExisting("t1")
    \/ RemoveModeratorDelete("t1")
    \/ RemoveModeratorCount("t1")
    \/ RemoveModeratorUser("t1")
    \/ RemoveModeratorUpdate("t1")
    \/ TxBegin("t1")
    \/ TxQuery("t1")
    \/ TxEnd("t1")
    \/ LogUserActivity("t1")
    \/ Return("t1")

SpecAdmin == InitAdmin /\ [][NextAdmin]_vars

\* permission checks between grants and revocations, one request at a time
NextAuth ==
    \/ CallCheckPermission("t1")
    \/ CheckPermissionUser("t1")
    \/ CheckPermissionGrant("t1")
    \/ CallAssignModerator("t1")
    \/ CallRemoveModerator("t1")
    \/ Permission("t1")
    \/ AssignModeratorUser("t1")
    \/ AssignModeratorCategory("t1")
    \/ AssignModeratorExisting("t1")
    \/ AssignModeratorUpdate("t1")
    \/ AssignModeratorInsert("t1")
    \/ RemoveModeratorExisting("t1")
    \/ RemoveModeratorDelete("t1")
    \/ RemoveModeratorCount("t1")
    \/ RemoveModeratorUser("t1")
    \/ RemoveModeratorUpdate("t1")
    \/ LogUserActivity("t1")
    \/ Return("t1")

SpecAuth == InitAdmin /\ [][NextAuth]_vars

\* the site with its categories, where user 2 is a member or the moderator
\* of category 1
InitModerate ==
    /\ \E mod \in BOOLEAN :
          cfg = [FreshCfg EXCEPT !.cats = [c \in Cats |-> 0], !.seq = MaxCat,
                                 !.role[2] = IF mod THEN "moderator" ELSE "user",
                                 !.grants = IF mod THEN {<<2, 1>>} ELSE {}]
    /\ txn = NoTxn
    /\ files = [k \in Cats |-> k]
    /\ inodes = [i \in Inodes |-> IF i \in Cats
                                  THEN [used |-> TRUE, schema |-> NStmts, posts |-> 0]
                                  ELSE FreeInode]
    /\ handles = [h \in Handles |-> FreeHandle]
    /\ forumDBs = [k \in Cats |-> 0]
    /\ pc = [t \in Tasks |-> "idle"]
    /\ loc = [t \in Tasks |-> BlankLoc]
    /\ activity = 0
    /\ content = [k \in Cats |-> EmptyPartition]
    /\ mgr = ReadyMgr

\* posting, and deleting posts through the route and by checkPermission's
\* answer, one request at a time
NextModerate ==
    \/ CallForumCreatePost("t1")
    \/ CallDeletePost("t1")
    \/ CallCheckPermission("t1")
    \/ CheckPermissionUser("t1")
    \/ CheckPermissionGrant("t1")
    \/ ForumGetForumDB("t1")
    \/ PostInsert("t1")
    \/ PostSelect("t1")
    \/ PostDelete("t1")
    \/ Return("t1")

SpecModerate == InitModerate /\ [][NextModerate]_vars

\* posts with their comments and attachments, one request at a time
NextCascade ==
    \/ CallForumCreatePost("t1")
    \/ CallDeletePost("t1")
    \/ CallCreateComment("t1")
    \/ CallSaveAttachment("t1")
    \/ ForumGetForumDB("t1")
    \/ PostInsert("t1")
    \/ PostSelect("t1")
    \/ PostDelete("t1")
    \/ CommentInsert("t1")
    \/ AttachmentInsert("t1")
    \/ Return("t1")

SpecCascade == InitAdmin /\ [][NextCascade]_vars

\* every write on the posts of a partition, one request at a time
NextIndex ==
    \/ CallForumCreatePost("t1")
    \/ CallUpdatePost("t1")
    \/ CallDeletePost("t1")
    \/ CallCreateComment("t1")
    \/ CallGetPost("t1")
    \/ ForumGetForumDB("t1")
    \/ PostInsert("t1")
    \/ PostSelect("t1")
    \/ PostUpdate("t1")
    \/ PostDelete("t1")
    \/ CommentInsert("t1")
    \/ PostUser("t1")
    \/ PostView("t1")
    \/ PostRest("t1")
    \/ Return("t1")

SpecIndex == InitAdmin /\ [][NextIndex]_vars

\* category 1 holds the post that createPost(1, 1, ...) made
InitView ==
    /\ cfg = [FreshCfg EXCEPT !.cats = [c \in Cats |-> 0], !.seq = MaxCat]
    /\ txn = NoTxn
    /\ files = [k \in Cats |-> k]
    /\ inodes = [i \in Inodes |-> IF i \in Cats
                                  THEN [used |-> TRUE, schema |-> NStmts, posts |-> 0]
                                  ELSE FreeInode]
    /\ handles = [h \in Handles |-> FreeHandle]
    /\ forumDBs = [k \in Cats |-> 0]
    /\ pc = [t \in Tasks |-> "idle"]
    /\ loc = [t \in Tasks |-> BlankLoc]
    /\ activity = 0
    /\ content = [k \in Cats |-> IF k = 1 THEN InsertPost(EmptyPartition, 1, 1, {"alpha"})
                                  ELSE EmptyPartition]
    /\ mgr = ReadyMgr

\* readers of the posts, two requests at a time
NextView ==
    \E t \in Tasks :
        \/ CallGetPost(t)
        \/ ForumGetForumDB(t)
        \/ PostSelect(t)
        \/ PostUser(t)
        \/ PostView(t)
        \/ PostRest(t)
        \/ Return(t)

SpecView == InitView /\ [][NextView]_vars

\* a getPosts call on a partition with any rows, any page and page size
InitPage ==
    /\ cfg = [FreshCfg EXCEPT !.cats = [c \in Cats |-> 0], !.seq = MaxCat]
    /\ txn = NoTxn
    /\ files = [k \in Cats |-> k]
    /\ inodes = [i \in Inodes |-> IF i \in Cats
                                  THEN [used |-> TRUE, schema |-> NStmts, posts |-> 0]
                                  ELSE FreeInode]
    /\ handles = [h \in Handles |-> FreeHandle]
    /\ forumDBs = [k \in Cats |-> 0]
    /\ pc = [t \in Tasks |-> IF t = "t1" THEN "posts_query" ELSE "idle"]
    /\ \E rs \in RowSets, sb \in {"created_at", "last_comment_at"}, p \in 1..MaxPage,
          lm \in 1..MaxLimit, ti \in {"asc", "desc"} :
          loc = [t \in Tasks |->
                   IF t = "t1"
                   THEN [BlankLoc EXCEPT !.op = "getPosts", !.cid = 1, !.rows = rs,
                                         !.sortBy = sb, !.page = p, !.limit = lm, !.tie = ti]
                   ELSE BlankLoc]
    /\ activity = 0
    /\ content = [k \in Cats |-> EmptyPartition]
    /\ mgr = ReadyMgr

NextPage ==
    \/ GetPostsQuery("t1")
    \/ GetPostsUsers("t1")
    \/ GetPostsCount("t1")

SpecPage == InitPage /\ [][NextPage]_vars

\* the fan-out operations over partitions that posts and comments fill
NextFanOut ==
    \/ CallFanOut("t1")
    \/ FanOutList("t1")
    \/ FanOutPartition("t1")
    \/ CallForumCreatePost("t1")
    \/ CallCreateComment("t1")
    \/ ForumGetForumDB("t1")
    \/ PostInsert("t1")
    \/ PostSelect("t1")
    \/ CommentInsert("t1")
    \/ Return("t1")

SpecFanOut == InitAdmin /\ [][NextFanOut]_vars

\* close() after any number of getForumDB calls, and close() again
NextClose ==
    \/ CallGetForumDB("t1")
    \/ CreateForumDBOpen("t1")
    \/ CreateForumTablesStmt("t1")
    \/ CallClose("t1")
    \/ CloseConfig("t1")
    \/ CloseForum("t1")
    \/ Return("t1")

SpecClose == Init /\ [][NextClose]_vars

\* getPopularPosts on any partitions, cutoff, limit and key
InitPopular ==
    /\ cfg = [FreshCfg EXCEPT !.cats = [c \in Cats |-> 0], !.seq = MaxCat]
    /\ txn = NoTxn
    /\ files = [k \in Cats |-> k]
    /\ inodes = [i \in Inodes |-> IF i \in Cats
                                  THEN [used |-> TRUE, schema |-> NStmts, posts |-> 0]
                                  ELSE FreeInode]
    /\ handles = [h \in Handles |-> FreeHandle]
    /\ forumDBs = [k \in Cats |-> 0]
    /\ pc = [t \in Tasks |-> IF t = "t1" THEN "popular_partition" ELSE "idle"]
    /\ \E ps \in [Cats -> PopularRowSets], c \in Moments, lm \in 1..MaxLimit, k \in {0} \cup Cats :
          loc = [t \in Tasks |->
                   IF t = "t1"
                   THEN [BlankLoc EXCEPT !.op = "getPopularPosts", !.cid = k, !.parts = ps,
                                         !.cutoff = c, !.limit = lm,
                                         !.pending = IF k = 0 THEN Cats ELSE {}]
                   ELSE BlankLoc]
    /\ activity = 0
    /\ content = [k \in Cats |-> EmptyPartition]
    /\ mgr = ReadyMgr

NextPopular ==
    \/ PopularPartition("t1")
    \/ PopularSort("t1")

SpecPopular == InitPopular /\ [][NextPopular]_vars

\* createForumTables, run again and again on stores in any schema state
\* that hold zero or one post
InitSchema ==
    /\ cfg = [FreshCfg EXCEPT !.cats = [c \in Cats |-> 0], !.seq = MaxCat]
    /\ txn = NoTxn
    /\ files = [k \in Cats |-> k]
    /\ inodes = [i \in Inodes |-> IF i \in Cats
                                  THEN [used |-> TRUE, schema |-> NStmts, posts |-> 0]
                                  ELSE FreeInode]
    /\ handles = [h \in Handles |-> FreeHandle]
    /\ forumDBs = [k \in Cats |-> 0]
    /\ pc = [t \in Tasks |-> "idle"]
    /\ loc = [t \in Tasks |-> BlankLoc]
    /\ activity = 0
    /\ \E o \in SchemaStates, filled \in BOOLEAN :
          /\ filled => "posts" \in o
          /\ content = [k \in Cats |->
                          IF k = 1
                          THEN [(IF filled THEN InsertPost(EmptyPartition, 1, 1, {"alpha"})
                                 ELSE EmptyPartition) EXCEPT !.objects = o]
                          ELSE EmptyPartition]
    /\ mgr = ReadyMgr

NextSchema ==
    \/ CallCreateForumTables("t1")
    \/ SchemaStatement("t1")
    \/ SchemaReturn("t1")

SpecSchema == InitSchema /\ [][NextSchema]_vars

\* searchPosts, with and without a key, over partitions that posts fill
NextSearch ==
    \/ CallSearchPosts("t1")
    \/ SearchSubforum("t1")
    \/ FanOutList("t1")
    \/ FanOutPartition("t1")
    \/ CallForumCreatePost("t1")
    \/ ForumGetForumDB("t1")
    \/ PostInsert("t1")
    \/ Return("t1")

SpecSearch == InitAdmin /\ [][NextSearch]_vars

\* a comment on a post at a time not before any time in the stores, and the
\* lists read after it
InitActivity ==
    /\ cfg = [FreshCfg EXCEPT !.cats = [c \in Cats |-> 0], !.seq = MaxCat]
    /\ txn = NoTxn
    /\ files = [k \in Cats |-> k]
    /\ inodes = [i \in Inodes |-> IF i \in Cats
                                  THEN [used |-> TRUE, schema |-> NStmts, posts |-> 0]
                                  ELSE FreeInode]
    /\ handles = [h \in Handles |-> FreeHandle]
    /\ forumDBs = [k \in Cats |-> 0]
    /\ pc = [t \in Tasks |-> IF t = "t1" THEN "activity_comment" ELSE "idle"]
    /\ \E ps \in [Cats -> ActivityRowSets], k \in Cats, id \in 1..MaxActRows, nw \in Stamps :
          /\ \A c \in Cats : \A i \in DOMAIN ps[c] : ps[c][i].last_comment_at <= nw
          /\ loc = [t \in Tasks |->
                      IF t = "t1"
                      THEN [BlankLoc EXCEPT !.op = "createComment", !.parts = ps,
                                            !.bumped = <<k, id>>, !.now = nw, !.cid = k,
                                            !.pid = id]
                      ELSE BlankLoc]
    /\ activity = 0
    /\ content = [k \in Cats |-> EmptyPartition]
    /\ mgr = ReadyMgr

NextActivity ==
    \/ ActivityCreateComment("t1")
    \/ CallActivityRead("t1")
    \/ GetPostsQuery("t1")
    \/ GetPostsUsers("t1")
    \/ GetPostsCount("t1")
    \/ RecentPartition("t1")
    \/ RecentSort("t1")

SpecActivity == InitActivity /\ [][NextActivity]_vars

\* validation and repair of stores that drift, with handles cached or not
NextValidate ==
    \/ CallValidate("t1")
    \/ ValidateGetForumDB("t1")
    \/ ValidateTables("t1")
    \/ ValidateTriggers("t1")
    \/ InitializeGetForumDB("t1")
    \/ SchemaDrift
    \/ Return("t1")

SpecValidate == InitAdmin /\ [][NextValidate]_vars

\* grants, revocations, role changes and category deletion, one request at a
\* time
NextRoles ==
    \/ CallAssignModerator("t1")
    \/ CallRemoveModerator("t1")
    \/ CallChangeUserRole("t1")
    \/ CallDeleteCategory("t1")
    \/ Permission("t1")
    \/ DeleteCategoryExist("t1")
    \/ CreateForumDBOpen("t1")
    \/ CreateForumTablesStmt("t1")
    \/ DeleteCategoryCount("t1")
    \/ DeleteForumCategoryExist("t1")
    \/ DeleteForumCategoryClose("t1")
    \/ DeleteForumCategoryUnlink("t1")
    \/ AssignModeratorUser("t1")
    \/ AssignModeratorCategory("t1")
    \/ AssignModeratorExisting("t1")
    \/ AssignModeratorUpdate("t1")
    \/ AssignModeratorInsert("t1")
    \/ RemoveModeratorExisting("t1")
    \/ RemoveModeratorDelete("t1")
    \/ RemoveModeratorCount("t1")
    \/ RemoveModeratorUser("t1")
    \/ RemoveModeratorUpdate("t1")
    \/ ChangeUserRoleUser("t1")
    \/ ChangeUserRoleUpdate("t1")
    \/ TxBegin("t1")
    \/ TxQuery("t1")
    \/ TxEnd("t1")
    \/ LogUserActivity("t1")
    \/ Return("t1")

SpecRoles == InitAdmin /\ [][NextRoles]_vars

\* category deletion by one request while another reorders the categories on
\* the same config connection
NextIsolation ==
    \/ CallDeleteCategory("t1")
    \/ DeleteCategoryExist("t1")
    \/ CreateForumDBOpen("t1")
    \/ CreateForumTablesStmt("t1")
    \/ DeleteCategoryCount("t1")
    \/ DeleteForumCategoryExist("t1")
    \/ DeleteForumCategoryClose("t1")
    \/ DeleteForumCategoryUnlink("t1")
    \/ CallUpdateCategoryOrder("t2")
    \/ \E t \in Tasks :
          \/ Permission(t)
          \/ TxBegin(t)
          \/ TxQuery(t)
          \/ TxEnd(t)
          \/ Return(t)

SpecIsolation == InitAdmin /\ [][NextIsolation]_vars

\* one category deletion while another request keeps posting
NextRace ==
    \/ CallDeleteCategory("t1")
    \/ Permission("t1")
    \/ DeleteCategoryExist("t1")
    \/ DeleteCategoryCount("t1")
    \/ DeleteForumCategoryExist("t1")
    \/ TxBegin("t1")
    \/ TxQuery("t1")
    \/ TxEnd("t1")
    \/ DeleteForumCategoryClose("t1")
    \/ DeleteForumCategoryUnlink("t1")
    \/ LogUserActivity("t1")
    \/ CallCreatePost("t2")
    \/ CreatePostInsert("t2")
    \/ Return("t2")
    \/ \E t \in Tasks :
          \/ CreateForumDBOpen(t)
          \/ CreateForumTablesStmt(t)

SpecRace == InitAdmin /\ [][NextRace]_vars

\* ------------------------------------------------------------------ claims
Creating(t) == pc[t] \in {"cfd_open", "cfd_schema"}

Done(t, op) == pc[t] = "done" /\ loc[t].op = op

PartitionReady(k) == files[k] # 0 /\ inodes[files[k]].schema = NStmts

\* C1: two getForumDB(K) calls in flight for a key with no cached handle open
\* the store once and apply the schema once: no two of them are ever both
\* applying the schema to forum_K through handles of their own.
C1_SingleFlight ==
    \A t1 \in Tasks, t2 \in Tasks :
        (t1 # t2 /\ loc[t1].op = "getForumDB" /\ loc[t2].op = "getForumDB"
            /\ loc[t1].cid = loc[t2].cid)
        => ~(pc[t1] = "cfd_schema" /\ pc[t2] = "cfd_schema" /\ loc[t1].db # loc[t2].db)

\* C2: deleteCategory of a category whose partition holds a post fails with
\* a conflict and leaves the Category row and the physical store in place.
C2_DeleteRefusedWhenPosts ==
    \A t \in Tasks :
        (Done(t, "deleteCategory") /\ loc[t].cnt > 0)
        => /\ loc[t].res = "err"
           /\ loc[t].why = "conflict"
           /\ cfg.cats[loc[t].cid] # NoRow
           /\ files[loc[t].cid] # 0

\* C3: once createCategory has returned or thrown, the Category row it
\* inserted is there only with an initialized partition.
C3_NoOrphanCategory ==
    \A t \in Tasks :
        (Done(t, "createCategory") /\ loc[t].cid # 0 /\ cfg.cats[loc[t].cid] # NoRow)
        => PartitionReady(loc[t].cid)

\* C4: a key is in the handle cache only with an open handle whose store has
\* the whole content schema, and never with the handle of a creation that is
\* still running or that failed.
C4_CacheOnlyInitialized ==
    \A k \in Cats :
        forumDBs[k] # 0
        => /\ handles[forumDBs[k]].st = "open"
           /\ inodes[handles[forumDBs[k]].ino].schema = NStmts
           /\ \A t \in Tasks :
                 (Creating(t) \/ (pc[t] = "done" /\ loc[t].res = "err"))
                 => loc[t].db # forumDBs[k]

\* C4 witness: getForumDB(K) has thrown after its createForumDB opened the
\* store and failed in the schema, and K is not cached.
C4_FailedCreationNotCached ==
    \E t \in Tasks :
        /\ Done(t, "getForumDB")
        /\ loc[t].res = "err"
        /\ loc[t].db # 0
        /\ forumDBs[loc[t].cid] = 0

\* C5: after a createForumDB(K) that failed, with no other creation of K
\* running, no physical store forum_K with a partial schema is left.
C5_PartialStoreRolledBack ==
    \A t \in Tasks :
        (Done(t, "getForumDB") /\ loc[t].res = "err"
            /\ \A u \in Tasks : ~(Creating(u) /\ loc[u].cid = loc[t].cid))
        => (files[loc[t].cid] = 0 \/ PartitionReady(loc[t].cid))

\* C6: deleteForumCategory is one atomic step: when it throws the config
\* store is as it was before the call; when it returns the Category row, the
\* grants of K, the cached handle and the physical store are all gone.
C6_DeleteAtomic ==
    \A t \in Tasks :
        Done(t, "deleteCategory")
        => /\ loc[t].res = "err" => cfg = loc[t].pre
           /\ loc[t].res = "ok" =>
                 /\ cfg.cats[loc[t].cid] = NoRow
                 /\ \A g \in cfg.grants : g[2] # loc[t].cid
                 /\ forumDBs[loc[t].cid] = 0
                 /\ files[loc[t].cid] = 0

C8_RemoveAtomic ==
    \A t \in Tasks :
        (Done(t, "removeModerator") /\ loc[t].res = "err") => cfg = loc[t].pre

\* C9: an assignModerator that throws leaves the grants and the roles as they
\* were before the call, and a grant that exists already is a conflict.
C9_AssignFailsClean ==
    \A t \in Tasks :
        Done(t, "assignModerator")
        => /\ loc[t].res = "err" => cfg = loc[t].pre
           /\ (loc[t].user # "none" /\ <<loc[t].uid, loc[t].cid>> \in loc[t].pre.grants)
                => (loc[t].res = "err" /\ loc[t].why = "conflict")

\* the batch applied to the categories, one UPDATE after the other
RECURSIVE ApplyAll(_, _)
ApplyAll(c, qs) ==
    IF qs = <<>> THEN c ELSE ApplyAll(ApplyQuery(c, Head(qs)), Tail(qs))

CheckPermissionStep ==
    \E t \in Tasks :
        \/ pc[t] \in {"cp_user", "cp_grant"}
        \/ pc[t] = "idle" /\ pc'[t] # "idle" /\ loc'[t].op = "checkPermission"

\* checkPermission returned, it did not throw, and the stored users and
\* grants are those of its call
CheckPermissionSettled(t) ==
    Done(t, "checkPermission") => (loc[t].res = "ok" /\ cfg = loc[t].pre)

\* false for a missing id, for an id with no user, and when a lookup failed
CheckPermissionRefuses(t) ==
    (Done(t, "checkPermission")
        /\ (loc[t].uid = 0 \/ loc[t].uid \notin Users \/ loc[t].hasError))
    => loc[t].val = FALSE

\* C11 as stated: checkPermission changes no stored state (users, grants,
\* activity log, handle cache), never throws, and returns false for a missing
\* userId, for an id with no user, for an unknown action and when the lookup
\* fails.
C11_PermissionPureUnknownRefused ==
    /\ [][CheckPermissionStep =>
            UNCHANGED <<cfg, txn, files, inodes, handles, forumDBs, activity, content, mgr>>]_vars
    /\ [](\A t \in Tasks :
            /\ CheckPermissionSettled(t)
            /\ CheckPermissionRefuses(t)
            /\ (Done(t, "checkPermission") /\ loc[t].action = "unknown_action")
                  => loc[t].val = FALSE)

\* C11 amended: checkPermission changes no stored state, never throws, and
\* returns false for a missing userId, for an id with no user, when the lookup
\* fails, and for an unknown action unless the user is a super_admin, who is
\* allowed every action, known or not.
C11_PermissionPure ==
    /\ [][CheckPermissionStep =>
            UNCHANGED <<cfg, txn, files, inodes, handles, forumDBs, activity, content, mgr>>]_vars
    /\ [](\A t \in Tasks :
            /\ CheckPermissionSettled(t)
            /\ CheckPermissionRefuses(t)
            /\ (Done(t, "checkPermission") /\ loc[t].action = "unknown_action")
                  => loc[t].val = (loc[t].user = "super_admin"))

\* C11 witness: the users lookup failed for the id of a super_admin, while
\* grants exist and the log has a row, and the answer is false.
C11_LookupFailedRefused ==
    \E t \in Tasks :
        /\ Done(t, "checkPermission")
        /\ loc[t].uid \in Users
        /\ cfg.role[loc[t].uid] = "super_admin"
        /\ loc[t].hasError
        /\ loc[t].val = FALSE
        /\ cfg.grants # {}
        /\ activity > 0

\* the user moderates the category: a super_admin everywhere, a moderator
\* where a grant names it, a 'user' nowhere
MayModerate(c, u, k) ==
    \/ c.role[u] = "super_admin"
    \/ c.role[u] = "moderator" /\ <<u, k>> \in c.grants

\* C12: a moderation action on category C is allowed to a moderator only
\* with a grant (user, C), never to a 'user', and always to a super_admin:
\* this is what checkPermission('moderate_category', C) answers, and a post
\* of somebody else is deleted through the route only by such a user.
C12_ModerationNeedsGrant ==
    \A t \in Tasks :
        /\ (Done(t, "checkPermission") /\ loc[t].action = "moderate_category"
                /\ loc[t].uid \in Users /\ loc[t].cid # 0 /\ ~loc[t].hasError)
           => (loc[t].val <=> MayModerate(cfg, loc[t].uid, loc[t].cid))
        /\ (Done(t, "deletePost") /\ loc[t].res = "ok" /\ loc[t].author # loc[t].uid)
           => MayModerate(cfg, loc[t].uid, loc[t].cid)

\* C13: every post stored in the partition of category K has category_id K.
C13_PostsCarryTheirKey ==
    \A k \in Cats : \A r \in content[k].posts : r.category_id = k

\* C13 witness: both partitions hold a post, and one of them has been
\* edited and read.
C13_PostsInBothPartitions ==
    /\ \A k \in Cats : content[k].posts # {}
    /\ \E t \in Tasks : Done(t, "updatePost") /\ loc[t].res = "ok"
    /\ \E k \in Cats : \E r \in content[k].posts : r.view_count > 0

\* C14: after a successful deletePost(P, K) the partition of K holds no
\* comment and no attachment whose post_id is P.
C14_DeleteCascades ==
    \A t \in Tasks :
        (Done(t, "deletePost") /\ loc[t].res = "ok")
        => /\ \A c \in content[loc[t].cid].comments : c.post_id # loc[t].pid
           /\ \A a \in content[loc[t].cid].attachments : a.post_id # loc[t].pid

\* C15: in every state every comment and every attachment of a partition
\* references a post that exists in the same partition.
C15_NoOrphans ==
    \A k \in Cats :
        LET ids == {r.id : r \in content[k].posts}
        IN /\ \A c \in content[k].comments : c.post_id \in ids
           /\ \A a \in content[k].attachments : a.post_id \in ids

\* C16: after every write the search index holds exactly one entry per
\* existing post, with the post's current title and content: a search for a
\* word finds exactly the posts whose current title or content has it.
C16_IndexFollowsPosts ==
    \A k \in Cats :
        /\ content[k].fts = {FtsEntry(r) : r \in content[k].posts}
        /\ \A r1 \in content[k].posts, r2 \in content[k].posts : r1.id = r2.id => r1 = r2
        /\ \A w \in Words :
              SearchInSubforum(content[k], w, k)
                 = {r \in content[k].posts : w \in (r.title \cup r.content)}

\* C16 witness: an edit has returned on a post that was read and commented
\* before; "alpha" finds it and "beta" does not any more.
C16_EditedPostSearched ==
    \E t \in Tasks :
        /\ Done(t, "updatePost")
        /\ loc[t].res = "ok"
        /\ loc[t].title = {"alpha"}
        /\ LET p == content[loc[t].cid]
           IN /\ \E r \in p.posts : r.id = loc[t].pid /\ r.view_count > 0
              /\ \E c \in p.comments : c.post_id = loc[t].pid
              /\ SearchInSubforum(p, "alpha", loc[t].cid) # {}
              /\ SearchInSubforum(p, "beta", loc[t].cid) = {}

\* the stored view_count of post id in partition k
StoredViews(c, k, id) == {r.view_count : r \in {x \in c[k].posts : x.id = id}}

\* C17: getPost with incrementView raises the stored view_count of the post
\* by exactly 1 and the view_count it returns is the stored one right after
\* its own increment; without incrementView the stored value is not changed
\* and is returned as read.
C17_ViewCountReturned ==
    [][\A t \in Tasks :
          /\ (pc[t] = "post_view" /\ pc'[t] = "post_rest")
             => /\ StoredViews(content', loc[t].cid, loc[t].pid)
                      = {v + 1 : v \in StoredViews(content, loc[t].cid, loc[t].pid)}
                /\ StoredViews(content', loc[t].cid, loc[t].pid) = {loc'[t].views}
          /\ (pc[t] \in {"post_select", "post_user", "post_rest"} /\ pc'[t] # pc[t]
                /\ ~loc[t].incrementView)
             => /\ content' = content
                /\ pc[t] # "post_select" => loc'[t].views = loc[t].views]_vars

\* the rows with a later, and with a later or the same, timestamp than row i
Later(l, i) ==
    {j \in DOMAIN l.rows : OrderColumn(l.rows, l.sortBy, j) > OrderColumn(l.rows, l.sortBy, i)}
NotEarlier(l, i) ==
    {j \in DOMAIN l.rows : OrderColumn(l.rows, l.sortBy, j) >= OrderColumn(l.rows, l.sortBy, i)}

\* C18: getPosts on a partition with N posts returns the posts at positions
\* (page-1)*limit+1 .. min(page*limit, N) of the descending order on the
\* chosen column, total_count = N, has_next exactly when posts remain after
\* the page, and has_prev exactly when page > 1.
C18_Pagination ==
    \A t \in Tasks :
        (Done(t, "getPosts") /\ loc[t].res = "ok")
        => LET l == loc[t]
               N == Len(l.rows)
               first == (l.page - 1) * l.limit + 1
               last == IF l.page * l.limit < N THEN l.page * l.limit ELSE N
           IN /\ Len(l.posts) = (IF last >= first THEN last - first + 1 ELSE 0)
              /\ \A i \in DOMAIN l.posts :
                    /\ l.posts[i] \in DOMAIN l.rows
                    /\ Cardinality(Later(l, l.posts[i])) <= first + i - 2
                    /\ first + i - 1 <= Cardinality(NotEarlier(l, l.posts[i]))
              /\ \A i \in DOMAIN l.posts, j \in DOMAIN l.posts :
                    i # j => l.posts[i] # l.posts[j]
              /\ l.pagination.total_count = N
              /\ l.pagination.has_next = (l.page * l.limit < N)
              /\ l.pagination.has_prev = (l.page > 1)

\* C18 witness: page 2 of a partition with more than two full pages, where
\* two posts share a timestamp.
C18_MiddlePage ==
    \E t \in Tasks :
        /\ Done(t, "getPosts")
        /\ loc[t].res = "ok"
        /\ loc[t].page = 2
        /\ loc[t].limit = 1
        /\ Len(loc[t].rows) >= 3
        /\ Len(loc[t].posts) = loc[t].limit
        /\ loc[t].pagination.has_next
        /\ loc[t].pagination.has_prev
        /\ \E i \in DOMAIN loc[t].rows : Cardinality(NotEarlier(loc[t], i) \ Later(loc[t], i)) > 1

\* the sum of the post counts of the partitions ks
RECURSIVE PostsIn(_)
PostsIn(ks) ==
    IF ks = {} THEN 0
    ELSE LET k == CHOOSE x \in ks : TRUE
         IN Cardinality({r \in content[k].posts : r.category_id = k}) + PostsIn(ks \ {k})

CloseReleasedAll ==
    /\ mgr.configDB = "null"
    /\ GetConnectedForumDBs(forumDBs) = {}
    /\ ~IsConnected(mgr)
    /\ \A k \in Cats : ~IsForumDBConnected(forumDBs, k)
    /\ \A h \in Handles : handles[h].st # "open"

\* C20: close() releases the config handle and every cached partition
\* handle: after it the cache is empty, isConnected() is false and no key
\* is connected; and when closing one handle fails, no other handle is
\* left in the cache.
C20_CloseReleasesAll ==
    \A t \in Tasks :
        Done(t, "close")
        => /\ loc[t].res = "ok" => CloseReleasedAll
           /\ loc[t].res = "err" =>
                 \A k \in Cats \ loc[t].failed : ~IsForumDBConnected(forumDBs, k)

\* post p was created after the cutoff moment
InWindow(l, p) ==
    LET m == l.parts[p[1]][p[2]].created_at
    IN m.day > l.cutoff.day \/ (m.day = l.cutoff.day /\ m.sec > l.cutoff.sec)

\* post p was created before the cutoff moment
OutOfWindow(l, p) ==
    LET m == l.parts[p[1]][p[2]].created_at
    IN m.day < l.cutoff.day \/ (m.day = l.cutoff.day /\ m.sec < l.cutoff.sec)

\* post p ranks strictly above post q: more views, or as many and newer
RanksAbove(l, p, q) ==
    LET a == l.parts[p[1]][p[2]]
        b == l.parts[q[1]][q[2]]
    IN \/ a.view_count > b.view_count
       \/ /\ a.view_count = b.view_count
          /\ \/ a.created_at.day > b.created_at.day
             \/ a.created_at.day = b.created_at.day /\ a.created_at.sec > b.created_at.sec

\* the posts of the partitions a getPopularPosts call has read
PopularRead(l) ==
    UNION {{<<k, i>> : i \in DOMAIN l.parts[k]} : k \in (IF l.cid # 0 THEN {l.cid} ELSE Cats \ l.failed)}

\* the result l.posts is the head of the ranking of the posts in the window
PopularRanked(l) ==
    LET R == {l.posts[i] : i \in DOMAIN l.posts}
    IN /\ R \subseteq PopularRead(l)
       /\ \A p \in R : ~OutOfWindow(l, p)
       /\ Cardinality(R) = Len(l.posts)
       /\ Len(l.posts) <= l.limit
       /\ \A i \in DOMAIN l.posts, j \in DOMAIN l.posts :
             i < j => ~RanksAbove(l, l.posts[j], l.posts[i])
       /\ \A q \in PopularRead(l) \ R :
             InWindow(l, q) => /\ Len(l.posts) = l.limit
                               /\ \A p \in R : ~RanksAbove(l, q, p)

\* C21: getPopularPosts returns the first `limit` posts of those created
\* within the window, over all partitions that answered (or in the given
\* partition), ranked by view_count descending, ties by created_at descending.
C21_PopularRanking ==
    \A t \in Tasks :
        (Done(t, "getPopularPosts") /\ loc[t].res = "ok") => PopularRanked(loc[t])

\* C22: createForumTables is idempotent: it never fails on a statement, on
\* a new store or on one that already has the schema; a run that completes
\* leaves every table, index and trigger of the schema, a run after a
\* completed run changes nothing, and no run removes a row or an object.
C22_SchemaIdempotent ==
    \A t \in Tasks :
        Done(t, "createForumTables")
        => LET l == loc[t]
               p == content[l.cid]
           IN /\ l.why \in {"none", "io"}
              /\ l.res = "ok" => p.objects = SchemaObjects
              /\ l.snap \subseteq p.objects
              /\ l.snap = SchemaObjects => p.objects = l.snap
              /\ Cardinality(p.posts) = l.cnt

\* C22 witness: a second run on a store that holds a post has completed.
C22_SecondRunDone ==
    \E t \in Tasks :
        /\ Done(t, "createForumTables")
        /\ loc[t].res = "ok"
        /\ loc[t].run = 2
        /\ loc[t].snap = SchemaObjects
        /\ content[loc[t].cid].posts # {}

\* C23: searchPosts with an empty or whitespace-only query returns at once:
\* no posts, total_count 0, total_pages 0, has_next and has_prev false, no
\* error, and no step that opens or queries a partition store.
C23_BlankQueryEmpty ==
    [][\A t \in Tasks :
          (pc[t] = "idle" /\ loc'[t].op = "searchPosts" /\ \A i \in DOMAIN loc'[t].query :
                                                              loc'[t].query[i] = " ")
          => /\ pc'[t] = "done"
             /\ loc'[t].res = "ok"
             /\ loc'[t].posts = <<>>
             /\ loc'[t].found = {}
             /\ loc'[t].pagination = [total_pages |-> 0, total_count |-> 0,
                                       has_next |-> FALSE, has_prev |-> FALSE]
             /\ UNCHANGED <<files, inodes, handles, forumDBs, content>>]_vars

\* C23 witness: a query of blanks only has been answered while a partition
\* holds a post that a search for "alpha" finds.
C23_BlanksAnswered ==
    \E t \in Tasks :
        /\ Done(t, "searchPosts")
        /\ Len(loc[t].query) = 2
        /\ \A i \in DOMAIN loc[t].query : loc[t].query[i] = " "
        /\ loc[t].res = "ok"
        /\ \E k \in Cats : SearchInSubforum(content[k], "alpha", k) # {}

\* the place of post p in the result of a call, 0 when it is not there
PlaceIn(sq, p) == IF \E i \in DOMAIN sq : sq[i] = p THEN CHOOSE i \in DOMAIN sq : sq[i] = p ELSE 0

\* post p comes before every post of older activity in the result sq, which
\* starts at the head of the list
BeforeOlder(l, sq, p, older) ==
    \A q \in older :
        PlaceIn(sq, q) # 0 => (PlaceIn(sq, p) # 0 /\ PlaceIn(sq, p) < PlaceIn(sq, q))

\* C24: after a successful createComment on post P, P.last_comment_at is
\* the time of the comment and not earlier than before, and getPosts by
\* last_comment_at and getRecentActivityPosts list P before every post of
\* older activity.
C24_CommentBumpsActivity ==
    \A t \in Tasks :
        LET l == loc[t]
            k == l.bumped[1]
            id == l.bumped[2]
            at == l.parts[k][id].last_comment_at
        IN /\ (Done(t, "createComment") /\ l.res = "ok")
              => (at >= l.now /\ at >= l.prev)
           /\ (Done(t, "getPosts") /\ l.res = "ok" /\ l.sortBy = "last_comment_at"
               /\ l.cid = k /\ l.page = 1)
              => BeforeOlder(l, l.posts, id,
                             {q \in DOMAIN l.rows : l.rows[q].last_comment_at < at})
           /\ (Done(t, "getRecentActivityPosts") /\ l.res = "ok" /\ l.cid \in {0, k}
               /\ k \notin l.failed)
              => BeforeOlder(l, l.posts, <<k, id>>,
                             {q \in Cats \X (1..MaxActRows) :
                                 /\ q[2] \in DOMAIN l.parts[q[1]]
                                 /\ l.parts[q[1]][q[2]].last_comment_at < at})

\* the store of partition k has every required table and trigger
SchemaValid(k) == (RequiredTables \cup RequiredTriggers) \subseteq content[k].objects

\* C25: validateForumSchema(K) answers true exactly when every required
\* table and trigger exists in K's store, and after a verdict of false the
\* repair (validateAllForumSchemas -> initializeForumSchema) leaves the
\* store with all of them, also when K's handle is cached.
C25_DriftRepaired ==
    \A t \in Tasks :
        LET l == loc[t]
        IN /\ (Done(t, "validateForumSchema") /\ ~l.hasError) => (l.val = SchemaValid(l.cid))
           /\ (Done(t, "validateAllForumSchemas") /\ l.first = "invalid" /\ ~l.hasError)
              => SchemaValid(l.cid)

\* C26: a page of getPosts is in descending order of the chosen column, and
\* posts with equal values of that column are in insertion order (row id).
C26_PageOrderDeterministic ==
    \A t \in Tasks :
        (Done(t, "getPosts") /\ loc[t].res = "ok")
        => LET l == loc[t]
           IN \A i \in DOMAIN l.posts, j \in DOMAIN l.posts :
                 i < j => LET a == OrderColumn(l.rows, l.sortBy, l.posts[i])
                              b == OrderColumn(l.rows, l.sortBy, l.posts[j])
                          IN a > b \/ (a = b /\ l.posts[i] < l.posts[j])

\* C27: whenever no request is under way, an account of role 'user' holds
\* no grant and an account of role 'moderator' holds at least one.
C27_RoleMatchesGrants ==
    (\A t \in Tasks : pc[t] \in {"idle", "done"})
    => \A u \in Users :
          /\ cfg.role[u] = "user" => GrantsOf(cfg, u) = {}
          /\ cfg.role[u] = "moderator" => GrantsOf(cfg, u) # {}

\* C28: transactions of different callers on the config connection do not
\* disturb each other: a deleteCategory whose transaction runTransaction
\* rejected has deleted nothing, its category row is still there, whatever
\* another caller's updateCategoryOrder did in the meantime.
C28_TransactionsIsolated ==
    \A t \in Tasks :
        (Done(t, "deleteCategory") /\ loc[t].res = "err" /\ loc[t].why = "tx")
            => CatExists(cfg, loc[t].cid)

\* C29: category deletion never destroys content: when a deleteCategory that
\* got the partition and counted no post in it removes the partition's file,
\* the file holds no post, whatever createPost did in the meantime.
C29_DeletionKeepsContent ==
    [][\A t \in Tasks :
          (/\ pc[t] = "dfc_unlink"
           /\ loc[t].ret # 0
           /\ loc[t].cnt = 0
           /\ files[loc[t].cid] # 0
           /\ files'[loc[t].cid] = 0)
              => inodes[files[loc[t].cid]].posts = 0]_vars

\* C30: partitions exist only for categories: no step makes a file forum_K or
\* a cache entry for a key K that has no Category row, neither a row never
\* created nor one already deleted.
C30_StoresOnlyForCategories ==
    [][\A k \in Cats :
          (cfg.cats[k] = NoRow /\ cfg'.cats[k] = NoRow)
              => /\ files[k] = 0 => files'[k] = 0
                 /\ forumDBs[k] = 0 => forumDBs'[k] = 0]_vars

====
